---- MODULE Spec2Model ----
(***************************************************************************)
(* A model of kaws' trust-material handling: the cfssl issuance client of  *)
(* src/src/pki.rs, the child-process helper of src/src/process.rs, the     *)
(* administrator commands of src/src/admin.rs, the drivers of              *)
(* src/src/main.rs and src/agent/src/main.rs, and the parts of the         *)
(* encryptor and the PKI orchestration they are used with.                 *)
(***************************************************************************)
EXTENDS Integers, Sequences, FiniteSets, TLC

VARIABLES
    pc,         \* position of the running operation
    call,       \* the running operation and its arguments
    tempdir,    \* the TempDir of generate_cert / sign as it is on disk
    child,      \* the spawned external process
    output,     \* what wait_with_output / Command::output returned
    result,     \* what the operation returned to its caller
    fs,         \* the repository working tree: path -> bytes
    encryptor,  \* the Encryptor value of the running operation
    kms,        \* the remote key service as this caller sees it
    queue,      \* steps a multi-step flow has still to run
    log,        \* history of the run (what was attempted, what failed)
    process     \* the kaws / kaws-agent process: what it printed, its exit code

vars == <<pc, call, tempdir, child, output, result, fs, encryptor, kms, queue, log,
          process>>

-----------------------------------------------------------------------------
(* Values *)

\* A byte is a u8.
ByteMod == 256

\* A path that names no file (no content is a sequence of bytes 0..255).
NoFile == <<-1>>
\* Option<T>
None == [some |-> FALSE]
Some(v) == [some |-> TRUE, value |-> v]

NoDir == [exists |-> FALSE, cert_pem |-> NoFile, key_pem |-> NoFile]
NoCall == [op |-> "none"]
NoChild == [state |-> "none"]
NoOutput == [status |-> "none"]
NoResult == [ok |-> FALSE, kind |-> "pending", message |-> ""]
\* No process has been started (the operations are called directly).
NoProcess ==
    [state |-> "none", program |-> "", subcommand |-> "", stdout |-> <<>>,
     exit_code |-> 0, dependencies |-> TRUE]

\* Raw PEM bytes are Vec<u8> in the program. The first byte tells a
\* certificate, a private key and a signing request apart; a certificate
\* carries its subject and its issuer, a key and a request the subject.
Cert(subject, issuer) == <<67, subject, issuer>>
Key(subject) == <<75, subject>>
Csr(subject) == <<82, subject>>

\* Number of key pairs the issuance engine can hand out in a run.
MaxSerial == 2
Serials == 1..MaxSerial

\* CertificateAuthority { cert, key }
CertificateAuthority(n) == [cert |-> Cert(n, n), key |-> Key(n)]

Ok(v) == [ok |-> TRUE, value |-> v]
Err(kind, message) == [ok |-> FALSE, kind |-> kind, message |-> message]

\* KawsError::new(message)
KawsError(message) == Err("kaws", message)
\* impl From<io::Error> for KawsError
IoError(what) == Err("io", what)
\* impl From<SerdeJsonError> for KawsError
SerdeJsonError == Err("serde_json", "response does not parse")

-----------------------------------------------------------------------------
(* The issuance client: src/src/pki.rs *)

CommonNames == {"kaws-demo", "alice"}
SanLists == {None, Some(<<"kubernetes.demo.example.com">>),
             Some(<<"kubernetes.demo.example.com", "10.3.0.1">>)}

RECURSIVE Join(_, _)
\* [&str]::join(sep)
Join(s, sep) ==
    IF Len(s) = 0 THEN ""
    ELSE IF Len(s) = 1 THEN s[1]
    ELSE s[1] \o sep \o Join(Tail(s), sep)

\* tempdir.path().join("cert.pem"), tempdir.path().join("key.pem")
cert_path == "TMP/kaws/cert.pem"
key_path == "TMP/kaws/key.pem"

\* The argument vector each operation hands to Command::new("cfssl").
GenerateArgs == <<"gencert", "-initca", "-">>

GenerateCertArgs(san) ==
    <<"gencert", "-ca", cert_path, "-ca-key", key_path, "-">>
    \o (IF san.some THEN <<"-hostname", Join(san.value, ",")>> ELSE <<>>)
    \o <<"-">>

SignArgs == <<"sign", "-ca", cert_path, "-ca-key", key_path, "-">>

CsrGenerateArgs == <<"genkey", "-">>

\* format!(r#"{{"CN":"{}","key":{{"algo":"rsa","size":2048}}}}}}"#, common_name)
\* as the tokens a JSON reader sees: "{{" and "}}" of the format string are
\* one brace each, so the text opens two objects and ends in three "}".
RequestTokens(common_name) ==
    <<"{", "\"CN\"", ":", "\"" \o common_name \o "\"", ",",
      "\"key\"", ":", "{", "\"algo\"", ":", "\"rsa\"", ",",
      "\"size\"", ":", "2048", "}", "}", "}">>

\* The bytes written to the engine's stdin.
RequestPayload(common_name) == Join(RequestTokens(common_name), "")

IssuanceOps == {"generate", "generate_cert", "sign", "csr_generate"}
StagingOps == {"generate_cert", "sign"}

Args(c) ==
    CASE c.op = "generate" -> GenerateArgs
      [] c.op = "generate_cert" -> GenerateCertArgs(c.san)
      [] c.op = "sign" -> SignArgs
      [] c.op = "csr_generate" -> CsrGenerateArgs

Stdin(c) == IF c.op = "sign" THEN c.csr ELSE RequestPayload(c.common_name)

\* What the engine prints on stdout: whether it is a JSON object, which of
\* the members cert, key and csr it has, and their values.
EngineCert(c, n, staged) ==
    CASE c.op = "generate" -> Cert(n, n)
      [] c.op = "generate_cert" -> Cert(n, staged.cert_pem[2])
      [] c.op = "sign" -> Cert(c.csr[2], staged.cert_pem[2])
      [] c.op = "csr_generate" -> Cert(n, n)

Stdouts(c, staged) ==
    {[json |-> FALSE, fields |-> {}, cert |-> <<>>, key |-> <<>>, csr |-> <<>>]}
    \cup {[json |-> TRUE, fields |-> f, cert |-> EngineCert(c, n, staged),
           key |-> Key(n), csr |-> Csr(n)] :
               f \in SUBSET {"cert", "key", "csr"}, n \in Serials}

ExitStatuses == {"success", "failure"}

\* from_slice::<CfsslGencertResponse>: every field of the struct is required,
\* members the struct does not name are ignored.
ParsesGencertResponse(stdout) == stdout.json /\ {"cert", "key"} \subseteq stdout.fields
\* from_slice::<CfsslSignResponse>
ParsesSignResponse(stdout) == stdout.json /\ {"cert"} \subseteq stdout.fields
\* from_slice::<CfsslGenkeyResponse>
ParsesGenkeyResponse(stdout) == stdout.json /\ {"csr", "key"} \subseteq stdout.fields

Parses(c, stdout) ==
    CASE c.op = "generate" -> ParsesGencertResponse(stdout)
      [] c.op = "generate_cert" -> ParsesGencertResponse(stdout)
      [] c.op = "sign" -> ParsesSignResponse(stdout)
      [] c.op = "csr_generate" -> ParsesGenkeyResponse(stdout)

\* The value each operation builds from the parsed response.
Value(c, stdout) ==
    CASE c.op = "generate" -> [cert |-> stdout.cert, key |-> stdout.key]
      [] c.op = "generate_cert" -> <<stdout.cert, stdout.key>>
      [] c.op = "sign" -> stdout.cert
      [] c.op = "csr_generate" -> <<stdout.csr, stdout.key>>

\* The message of the error each operation returns on a non-zero exit (the
\* source's backquotes are written as apostrophes).
FailureMessage(c) ==
    CASE c.op = "generate" -> "Execution of 'cfssl genkey' failed."
      [] c.op = "generate_cert" -> "Execution of 'cfssl gencert' failed."
      [] c.op = "sign" -> "Execution of 'cfssl gencert' failed."
      [] c.op = "csr_generate" -> "Execution of 'cfssl genkey' failed."

\* Outcome with the response looked at before the exit status.
OutcomeParseFirst(c, out) ==
    IF out.status # "none" /\ Parses(c, out.stdout)
    THEN <<FALSE, Ok(Value(c, out.stdout)), "success">>
    ELSE IF out.status = "success"
    THEN <<TRUE, SerdeJsonError, "parse">>
    ELSE <<FALSE, KawsError(FailureMessage(c)), "exit">>

\* if output.status.success() { from_slice(&output.stdout)? ... } else { Err(..) }
\* The first component tells whether `?` left the function at from_slice.
Outcome(c, out) ==
    IF out.status = "success"
    THEN IF Parses(c, out.stdout)
         THEN <<FALSE, Ok(Value(c, out.stdout)), "success">>
         ELSE <<TRUE, SerdeJsonError, "parse">>
    ELSE <<FALSE, KawsError(FailureMessage(c)), "exit">>

\* A directory that is not removed when the operation is left early.
LeakTempDir(dir, removed) == dir

\* TempDir's Drop, run when `?` or `return` leaves generate_cert / sign while
\* tempdir is live: the directory is removed, an error of the removal is
\* ignored. removed: whether the file system let the removal happen.
DropTempDir(dir, removed) == IF removed THEN NoDir ELSE dir

\* tempdir.close(): the same removal, its error handed to the caller.
CloseTempDir(dir, removed) == IF removed THEN NoDir ELSE dir

\* What temporary_write has put on disk when it stops at each of its steps.
TemporaryWriteSteps ==
    {"tempdir_new", "to_str", "create_cert", "create_key", "write_cert",
     "write_key", "ok"}

\* A staging that writes the first authority's files whatever self is.
StagedFromFirstCa(ca, step) ==
    IF step \in {"write_key", "ok"}
    THEN [exists |-> TRUE, cert_pem |-> CertificateAuthority(1).cert,
          key_pem |-> IF step = "ok" THEN CertificateAuthority(1).key ELSE <<>>]
    ELSE IF step = "tempdir_new" THEN NoDir
    ELSE [exists |-> TRUE, cert_pem |-> NoFile, key_pem |-> NoFile]

Staged(ca, step) ==
    CASE step = "tempdir_new" -> NoDir
      [] step \in {"to_str", "create_cert"} ->
            [exists |-> TRUE, cert_pem |-> NoFile, key_pem |-> NoFile]
      [] step = "create_key" ->
            [exists |-> TRUE, cert_pem |-> <<>>, key_pem |-> NoFile]
      [] step = "write_cert" ->
            [exists |-> TRUE, cert_pem |-> <<>>, key_pem |-> <<>>]
      [] step = "write_key" ->
            [exists |-> TRUE, cert_pem |-> ca.cert, key_pem |-> <<>>]
      [] step = "ok" ->
            [exists |-> TRUE, cert_pem |-> ca.cert, key_pem |-> ca.key]

TemporaryWriteError(step) ==
    IF step = "to_str" THEN KawsError("Temporary path was invalid UTF-8")
    ELSE IoError(step)

NewLog == [exit_path |-> "none", remove_failed |-> FALSE]

IssuanceCalls ==
    {[op |-> "generate", common_name |-> cn] : cn \in CommonNames}
    \cup {[op |-> "generate_cert", ca |-> CertificateAuthority(n),
           common_name |-> cn, san |-> san] :
               n \in Serials, cn \in CommonNames, san \in SanLists}
    \cup {[op |-> "sign", ca |-> CertificateAuthority(n), csr |-> Csr(m)] :
               n \in Serials, m \in Serials}
    \cup {[op |-> "csr_generate", common_name |-> cn] : cn \in CommonNames}

\* A caller invokes one of the operations of the issuance client.
Begin ==
    /\ pc \in {"idle", "returned"}
    /\ \E c \in IssuanceCalls :
          /\ call' = c
          /\ pc' = IF c.op \in StagingOps THEN "temporary_write" ELSE "spawn"
    /\ tempdir' = NoDir
    /\ child' = NoChild
    /\ output' = NoOutput
    /\ result' = NoResult
    /\ log' = NewLog
    /\ UNCHANGED <<fs, encryptor, kms, queue>>
    /\ UNCHANGED process

\* `?` or `return Err(..)` leaves the operation: the locals are dropped.
EarlyReturn(dir, err, path) ==
    /\ \E removed \in (IF dir.exists THEN BOOLEAN ELSE {TRUE}) :
          /\ tempdir' = DropTempDir(dir, removed)
          /\ log' = [log EXCEPT !.exit_path = path, !.remove_failed = ~removed]
    /\ result' = err
    /\ pc' = "returned"

\* let (tempdir, cert_path, key_path) = self.temporary_write()?;
temporary_write ==
    /\ pc = "temporary_write"
    /\ \E step \in TemporaryWriteSteps :
          IF step = "ok"
          THEN /\ tempdir' = Staged(call.ca, step)
               /\ pc' = "spawn"
               /\ UNCHANGED <<result, log>>
          ELSE EarlyReturn(Staged(call.ca, step), TemporaryWriteError(step), "staging")
    /\ UNCHANGED <<call, child, output, fs, encryptor, kms, queue>>
    /\ UNCHANGED process

\* let mut child = command.spawn()?;
spawn ==
    /\ pc = "spawn"
    /\ \/ /\ child' = [state |-> "running", program |-> "cfssl",
                       args |-> Args(call), stdin |-> None]
          /\ pc' = "stdin"
          /\ UNCHANGED <<tempdir, result, log>>
       \/ /\ EarlyReturn(tempdir, IoError("spawn"), "spawn")
          /\ UNCHANGED child
    /\ UNCHANGED <<call, output, fs, encryptor, kms, queue>>
    /\ UNCHANGED process

\* stdin.write_all(..)?  (stdin is piped, so child.stdin is Some)
write_stdin ==
    /\ pc = "stdin"
    /\ \/ /\ child' = [child EXCEPT !.stdin = Some(Stdin(call))]
          /\ pc' = "wait"
          /\ UNCHANGED <<tempdir, result, log>>
       \/ /\ EarlyReturn(tempdir, IoError("write_all"), "stdin")
          /\ UNCHANGED child
    /\ UNCHANGED <<call, output, fs, encryptor, kms, queue>>
    /\ UNCHANGED process

\* let output = child.wait_with_output()?;
wait_with_output ==
    /\ pc = "wait"
    /\ \/ /\ \E status \in ExitStatuses, stdout \in Stdouts(call, tempdir) :
                output' = [status |-> status, stdout |-> stdout]
          /\ child' = [child EXCEPT !.state = "reaped"]
          /\ pc' = "status"
          /\ UNCHANGED <<tempdir, result, log>>
       \/ /\ EarlyReturn(tempdir, IoError("wait_with_output"), "wait")
          /\ UNCHANGED <<child, output>>
    /\ UNCHANGED <<call, fs, encryptor, kms, queue>>
    /\ UNCHANGED process

\* The rest of the operation with the result of tempdir.close() dropped.
finishIgnoringRemoval ==
    /\ pc = "status"
    /\ LET o == Outcome(call, output) IN
         IF o[1]
         THEN EarlyReturn(tempdir, o[2], o[3])
         ELSE IF call.op \in StagingOps
         THEN \E removed \in BOOLEAN :
                 /\ tempdir' = CloseTempDir(tempdir, removed)
                 /\ result' = o[2]
                 /\ log' = [log EXCEPT
                        !.exit_path = IF removed THEN o[3] ELSE "remove",
                        !.remove_failed = ~removed]
                 /\ pc' = "returned"
         ELSE /\ result' = o[2]
              /\ log' = [log EXCEPT !.exit_path = o[3]]
              /\ pc' = "returned"
              /\ UNCHANGED tempdir
    /\ UNCHANGED <<call, child, output, fs, encryptor, kms, queue>>
    /\ UNCHANGED process

\* The rest of the operation: the status check, the parse of the response,
\* and for generate_cert and sign tempdir.close()? before result is returned.
finish ==
    /\ pc = "status"
    /\ LET o == Outcome(call, output) IN
         IF o[1]
         THEN EarlyReturn(tempdir, o[2], o[3])
         ELSE IF call.op \in StagingOps
         THEN \E removed \in BOOLEAN :
                 /\ tempdir' = CloseTempDir(tempdir, removed)
                 /\ result' = IF removed THEN o[2] ELSE IoError("remove_dir_all")
                 /\ log' = [log EXCEPT
                        !.exit_path = IF removed THEN o[3] ELSE "remove",
                        !.remove_failed = ~removed]
                 /\ pc' = "returned"
         ELSE /\ result' = o[2]
              /\ log' = [log EXCEPT !.exit_path = o[3]]
              /\ pc' = "returned"
              /\ UNCHANGED tempdir
    /\ UNCHANGED <<call, child, output, fs, encryptor, kms, queue>>
    /\ UNCHANGED process

-----------------------------------------------------------------------------
(* The child-process helper: src/src/process.rs *)

\* What command.output() gives: the spawn may fail; else the exit status and
\* whether stdout and stderr are valid UTF-8.
CommandOutputs ==
    {[spawned |-> FALSE, status |-> "none", stdout_utf8 |-> TRUE, stderr_utf8 |-> TRUE]}
    \cup {[spawned |-> TRUE, status |-> s, stdout_utf8 |-> a, stderr_utf8 |-> b] :
               s \in ExitStatuses, a \in BOOLEAN, b \in BOOLEAN}

\* execute_child_process(program, args)
execute_child_process(program, out) ==
    IF ~out.spawned THEN IoError("spawn")
    ELSE IF out.status # "success"
    THEN IF ~out.stdout_utf8 \/ ~out.stderr_utf8
         THEN Err("utf8", "invalid utf-8 sequence")
         ELSE KawsError("Execution of " \o program \o " failed!")
    ELSE Ok(None)

ProcessCalls ==
    {[op |-> "execute_child_process", program |-> p] : p \in {"openssl", "kubectl"}}

BeginProcess ==
    /\ pc \in {"idle", "returned"}
    /\ \E c \in ProcessCalls : call' = c
    /\ pc' = "output"
    /\ tempdir' = NoDir
    /\ child' = NoChild
    /\ output' = NoOutput
    /\ result' = NoResult
    /\ log' = NewLog
    /\ UNCHANGED <<fs, encryptor, kms, queue>>
    /\ UNCHANGED process

RunChildProcess ==
    /\ pc = "output"
    /\ \E out \in CommandOutputs :
          /\ output' = out
          /\ result' = execute_child_process(call.program, out)
          /\ log' = [log EXCEPT !.exit_path = IF out.status = "success" THEN "success" ELSE "exit"]
    /\ pc' = "returned"
    /\ UNCHANGED <<call, tempdir, child, fs, encryptor, kms, queue>>
    /\ UNCHANGED process

-----------------------------------------------------------------------------
(* The encryptor and the remote key service (encryption.rs: used by pki.rs  *)
(* and admin.rs, not among the sources; modelled from the specification's   *)
(* section 4.1)                                                             *)

\* Master keys of the remote service, and the data keys it hands out.
MasterKeys == {1, 2}
DataKeys == {1, 255}

RemoteKeyServiceError == Err("RemoteKeyServiceError", "key denied or unavailable")
MalformedBlobError == Err("MalformedBlobError", "corrupt structure")
DecryptionError == Err("DecryptionError", "integrity failure")
EncodingError == Err("EncodingError", "no master key to encrypt under")
FilesystemError == Err("FilesystemError", "file cannot be read or written")

\* Byte strings, and base64 texts (64 stands for the padding character;
\* the alphabet, a bijection on 0..63, is left out).
Bytes == Seq(0..(ByteMod - 1))
Sextets == Seq(0..64)

Sum(b) ==
    LET sum[s \in Bytes] == IF Len(s) = 0 THEN 0 ELSE s[1] + sum[Tail(s)]
    IN  sum[b]

\* base64 of a byte string: three bytes make four sextets.
Base64Encode(b) ==
    LET encode[s \in Bytes] ==
            IF Len(s) = 0 THEN <<>>
            ELSE IF Len(s) = 1 THEN <<s[1] \div 4, (s[1] % 4) * 16, 64, 64>>
            ELSE IF Len(s) = 2
            THEN <<s[1] \div 4, (s[1] % 4) * 16 + s[2] \div 16, (s[2] % 16) * 4, 64>>
            ELSE <<s[1] \div 4, (s[1] % 4) * 16 + s[2] \div 16,
                   (s[2] % 16) * 4 + s[3] \div 64, s[3] % 64>>
                 \o encode[SubSeq(s, 4, Len(s))]
    IN  encode[b]

\* Whether s is the base64 of some byte string.
IsBase64(s) ==
    /\ Len(s) % 4 = 0
    /\ \A i \in 1..Len(s) :
          /\ s[i] \in 0..64
          /\ s[i] = 64 => i >= Len(s) - 1 /\ (i = Len(s) - 1 => s[Len(s)] = 64)
    /\ Len(s) > 0 /\ s[Len(s)] = 64 =>
          IF s[Len(s) - 1] = 64 THEN s[Len(s) - 2] % 16 = 0
          ELSE s[Len(s) - 1] % 4 = 0

\* The byte string of a base64 text for which IsBase64 holds.
Base64Decode(s) ==
    LET decode[t \in Sextets] ==
            IF Len(t) = 0 THEN <<>>
            ELSE LET first == (t[1] * 4 + t[2] \div 16) % ByteMod
                     second == ((t[2] % 16) * 16 + t[3] \div 4) % ByteMod
                     third == ((t[3] % 4) * 64 + t[4]) % ByteMod
                 IN  IF t[3] = 64 THEN <<first>>
                     ELSE IF t[4] = 64 THEN <<first, second>>
                     ELSE <<first, second, third>> \o decode[SubSeq(t, 5, Len(t))]
    IN  decode[s]

\* The wrapped data key the service returns: it names its master key and
\* holds the data key, which only the service can take out of it.
Wrap(master, data_key) == <<master, data_key>>

\* The service unwraps a key for a caller it has authorized for its master key.
Unwrap(wrapped, authorized) ==
    IF wrapped[1] \in authorized THEN Ok(wrapped[2]) ELSE RemoteKeyServiceError

\* The authenticated cipher: every byte shifted by the data key, and a tag
\* over the plaintext and the key.
Seal(plaintext, data_key) ==
    LET seal[p \in Bytes] ==
            [i \in 1..Len(p) |-> (p[i] + data_key) % ByteMod]
            \o <<(Sum(p) + data_key) % ByteMod>>
    IN  seal[plaintext]

Open(sealed, data_key) ==
    LET open[s \in Bytes] ==
            LET plaintext ==
                    [i \in 1..(Len(s) - 1) |-> (s[i] + ByteMod - data_key) % ByteMod]
            IN  IF (Sum(plaintext) + data_key) % ByteMod = s[Len(s)]
                THEN Ok(plaintext)
                ELSE DecryptionError
    IN  open[sealed]

\* encrypt(plaintext, masterKeyRef): base64(wrapped-key || cipher-output)
encrypt(plaintext, master, data_key, authorized) ==
    IF master \notin authorized THEN RemoteKeyServiceError
    ELSE Ok(Base64Encode(Wrap(master, data_key) \o Seal(plaintext, data_key)))

\* decrypt(blob): the master key is the one the blob names, not the caller's.
decrypt(blob, authorized) ==
    LET opened[raw \in Bytes] ==
            IF Len(raw) < 3 THEN MalformedBlobError
            ELSE LET data_key == Unwrap(SubSeq(raw, 1, 2), authorized) IN
                 IF ~data_key.ok THEN data_key
                 ELSE Open(SubSeq(raw, 3, Len(raw)), data_key.value)
    IN  IF ~IsBase64(blob) THEN MalformedBlobError
        ELSE opened[Base64Decode(blob)]

\* The master key a stored blob is encrypted under.
MasterKeyOf(blob) == Base64Decode(blob)[1]

\* Encryptor::new(credentials, region, kms_master_key_id), and the files it
\* has decrypted, which it removes when it goes out of scope.
Encryptor(key_id) ==
    [live |-> TRUE, kms_master_key_id |-> key_id, decrypted_files |-> {}]
NoEncryptor ==
    [live |-> FALSE, kms_master_key_id |-> None, decrypted_files |-> {}]

\* What the environment does to one call: the step that fails, the data key
\* the service generates, the keys it lets the caller use, the bytes that
\* reach a file before a write fails.
Faults == {"none", "create", "write_all", "kms", "io"}
PartialWrites == {0, 1}
Envs(service, faults) ==
    [fault : faults, data_key : service.data_keys,
     authorized : {service.authorized}, written : PartialWrites]

\* encryptAndWriteFile: the old content stays when any step fails.
encrypt_and_write_file(enc, plaintext, file_path, f, env) ==
    IF ~enc.kms_master_key_id.some THEN [result |-> EncodingError, fs |-> f]
    ELSE IF env.fault = "kms" THEN [result |-> RemoteKeyServiceError, fs |-> f]
    ELSE LET blob == encrypt(plaintext, enc.kms_master_key_id.value,
                             env.data_key, env.authorized)
         IN  IF ~blob.ok THEN [result |-> blob, fs |-> f]
             ELSE IF env.fault = "io" THEN [result |-> FilesystemError, fs |-> f]
             ELSE [result |-> Ok(None), fs |-> [f EXCEPT ![file_path] = blob.value]]

\* decryptFile: the plaintext is written to dst, which the encryptor
\* remembers for removal.
decrypt_file(enc, src, dst, f, env) ==
    IF f[src] = NoFile \/ env.fault = "create"
    THEN [result |-> FilesystemError, fs |-> f, encryptor |-> enc]
    ELSE IF env.fault = "kms"
    THEN [result |-> RemoteKeyServiceError, fs |-> f, encryptor |-> enc]
    ELSE LET plaintext == decrypt(f[src], env.authorized) IN
         IF ~plaintext.ok
         THEN [result |-> plaintext, fs |-> f, encryptor |-> enc]
         ELSE IF env.fault = "io"
         THEN [result |-> FilesystemError, fs |-> f, encryptor |-> enc]
         ELSE [result |-> Ok(None),
               fs |-> [f EXCEPT ![dst] = plaintext.value],
               encryptor |-> [enc EXCEPT !.decrypted_files = @ \cup {dst}]]

\* The encryptor goes out of scope: every file it decrypted is removed.
DropEncryptor(enc, f) ==
    [p \in DOMAIN f |-> IF p \in enc.decrypted_files THEN NoFile ELSE f[p]]

-----------------------------------------------------------------------------
(* Persisting trust material: src/src/pki.rs *)

\* The first n bytes of a content, for a write that failed part way.
Partial(bytes, n) == SubSeq(bytes, 1, IF n < Len(bytes) THEN n ELSE 0)

\* A CertificateAuthority whose key is written to the key file as it is.
write_to_files_plain_key(ca, enc, cert_file_path, key_file_path, f, env) ==
    IF env.fault = "create" THEN [result |-> IoError("create"), fs |-> f]
    ELSE [result |-> Ok(None),
          fs |-> [f EXCEPT ![cert_file_path] = ca.cert, ![key_file_path] = ca.key]]

\* A CertificateAuthority whose as_bytes() is what is handed to the encryptor.
write_to_files_encrypting_as_bytes(ca, enc, cert_file_path, key_file_path, f, env) ==
    IF env.fault = "create" THEN [result |-> IoError("create"), fs |-> f]
    ELSE encrypt_and_write_file(enc, ca.cert, key_file_path,
                                [f EXCEPT ![cert_file_path] = ca.cert], env)

\* CertificateAuthority::write_to_files(encryptor, cert_file_path, key_file_path)
write_to_files(ca, enc, cert_file_path, key_file_path, f, env) ==
    IF env.fault = "create" THEN [result |-> IoError("create"), fs |-> f]
    ELSE IF env.fault = "write_all"
    THEN [result |-> IoError("write_all"),
          fs |-> [f EXCEPT ![cert_file_path] = Partial(ca.cert, env.written)]]
    ELSE encrypt_and_write_file(enc, ca.key, key_file_path,
                                [f EXCEPT ![cert_file_path] = ca.cert], env)

\* A certificate file that is created and never written to.
Certificate_write_to_file_empty(cert, file_path, f, env) ==
    IF env.fault = "create" THEN [result |-> IoError("create"), fs |-> f]
    ELSE [result |-> Ok(None), fs |-> [f EXCEPT ![file_path] = <<>>]]

\* Certificate::write_to_file(file_path)
Certificate_write_to_file(cert, file_path, f, env) ==
    IF env.fault = "create" THEN [result |-> IoError("create"), fs |-> f]
    ELSE IF env.fault = "write_all"
    THEN [result |-> IoError("write_all"),
          fs |-> [f EXCEPT ![file_path] = Partial(cert, env.written)]]
    ELSE [result |-> Ok(None), fs |-> [f EXCEPT ![file_path] = cert]]

\* PrivateKey::write_to_file(encryptor, file_path)
PrivateKey_write_to_file(key, enc, file_path, f, env) ==
    encrypt_and_write_file(enc, key, file_path, f, env)

-----------------------------------------------------------------------------
(* The administrator flow: src/src/admin.rs *)

Clusters == {"demo"}
Admins == {"alice"}

\* format!("clusters/{}/{}-key.pem", self.cluster, self.admin) and the like
admin_key_path(cluster, admin) == "clusters/" \o cluster \o "/" \o admin \o "-key.pem"
admin_csr_path(cluster, admin) == "clusters/" \o cluster \o "/" \o admin \o "-csr.pem"
\* A certificate path that differs from the one install hands to kubectl.
admin_cert_path_crt(cluster, admin) == "clusters/" \o cluster \o "/" \o admin \o ".crt"
admin_cert_path(cluster, admin) == "clusters/" \o cluster \o "/" \o admin \o ".pem"
ca_cert_path(cluster) == "clusters/" \o cluster \o "/ca.pem"
ca_key_path(cluster) == "clusters/" \o cluster \o "/ca-key.pem"
encrypted_ca_key_path(cluster) == "clusters/" \o cluster \o "/ca-key-encrypted.base64"

AdminPaths ==
    UNION {{admin_key_path(c, a), admin_csr_path(c, a), admin_cert_path(c, a),
            ca_cert_path(c), ca_key_path(c), encrypted_ca_key_path(c)} :
               c \in Clusters, a \in Admins}

\* What `kaws cluster output <cluster> <name>` gives to Command::output().
Regions == {"us-east-1"}
OutputCommandOutputs ==
    {[spawned |-> FALSE, status |-> "none", stdout |-> ""]}
    \cup {[spawned |-> TRUE, status |-> st, stdout |-> text] :
               st \in ExitStatuses, text \in Regions \cup {""}}

\* Admin::output(output_name): the exit status is not looked at.
Admin_output(out) ==
    IF ~out.spawned THEN IoError("spawn") ELSE Ok(Some(out.stdout))

\* region.parse(): Region::from_str
ParsesRegion(text) == text \in Regions

AdminLog ==
    [decrypt_attempted |-> FALSE, decrypted |-> FALSE, openssl_invoked |-> FALSE,
     key_id |-> None, fault |-> "none", commands |-> <<>>]

AdminSignBegin ==
    /\ pc \in {"idle", "returned"}
    /\ \E c \in Clusters, a \in Admins :
          call' = [op |-> "admin_sign", cluster |-> c, admin |-> a]
    /\ pc' = "sign_region"
    /\ result' = NoResult
    /\ output' = NoOutput
    /\ log' = [log EXCEPT !.run = AdminLog]
    /\ UNCHANGED <<tempdir, child, fs, encryptor, kms, queue>>
    /\ UNCHANGED process

\* sign returns without rolling the encryptor's scope back.
SignScopeExitKeepingFiles(enc, f) == f

\* The encryptor is a local of sign: it is dropped when sign returns.
SignScopeExit(enc, f) == DropEncryptor(enc, f)

AdminSignReturn(res, f, enc) ==
    /\ result' = res
    /\ fs' = SignScopeExit(enc, f)
    /\ encryptor' = NoEncryptor
    /\ pc' = "returned"

\* let region = try!(self.region()).expect(..); Encryptor::new(.., try!(region.parse()), None)
AdminSignRegion ==
    /\ pc = "sign_region"
    /\ \E out \in OutputCommandOutputs :
          LET region == Admin_output(out) IN
          /\ output' = out
          /\ IF ~region.ok
             THEN /\ result' = region
                  /\ pc' = "returned"
                  /\ UNCHANGED encryptor
             ELSE IF ~ParsesRegion(region.value.value)
             THEN /\ result' = Err("ParseRegionError", "Not a valid AWS region")
                  /\ pc' = "returned"
                  /\ UNCHANGED encryptor
             ELSE /\ encryptor' = Encryptor(None)
                  /\ pc' = "sign_decrypt"
                  /\ UNCHANGED result
    /\ UNCHANGED <<call, tempdir, child, fs, kms, queue, log>>
    /\ UNCHANGED process

\* The decryption step with its error dropped instead of returned.
AdminSignDecryptIgnoringError ==
    /\ pc = "sign_decrypt"
    /\ \E env \in Envs(kms, {"none", "create", "kms", "io"}) :
          LET r == decrypt_file(encryptor, encrypted_ca_key_path(call.cluster),
                                ca_key_path(call.cluster), fs, env)
          IN  /\ log' = [log EXCEPT !.run.decrypt_attempted = TRUE,
                                     !.run.decrypted = r.result.ok,
                                     !.run.key_id = encryptor.kms_master_key_id,
                                     !.run.fault = env.fault,
                                     !.run.commands = Append(@,
                                        [program |-> "decrypt_file",
                                         args |-> <<encrypted_ca_key_path(call.cluster),
                                                    ca_key_path(call.cluster)>>,
                                         reads |-> {encrypted_ca_key_path(call.cluster)},
                                         ok |-> r.result.ok])]
              /\ fs' = r.fs
              /\ encryptor' = r.encryptor
              /\ pc' = "sign_openssl"
              /\ UNCHANGED result
    /\ UNCHANGED <<call, tempdir, child, output, kms, queue>>
    /\ UNCHANGED process

\* try!(encryptor.decrypt_file(&encrypted_ca_key_path, &ca_key_path));
AdminSignDecrypt ==
    /\ pc = "sign_decrypt"
    /\ \E env \in Envs(kms, {"none", "create", "kms", "io"}) :
          LET r == decrypt_file(encryptor, encrypted_ca_key_path(call.cluster),
                                ca_key_path(call.cluster), fs, env)
          IN  /\ log' = [log EXCEPT !.run.decrypt_attempted = TRUE,
                                     !.run.decrypted = r.result.ok,
                                     !.run.key_id = encryptor.kms_master_key_id,
                                     !.run.fault = env.fault,
                                     !.run.commands = Append(@,
                                        [program |-> "decrypt_file",
                                         args |-> <<encrypted_ca_key_path(call.cluster),
                                                    ca_key_path(call.cluster)>>,
                                         reads |-> {encrypted_ca_key_path(call.cluster)},
                                         ok |-> r.result.ok])]
              /\ IF r.result.ok
                 THEN /\ fs' = r.fs
                      /\ encryptor' = r.encryptor
                      /\ pc' = "sign_openssl"
                      /\ UNCHANGED result
                 ELSE AdminSignReturn(r.result, r.fs, r.encryptor)
    /\ UNCHANGED <<call, tempdir, child, output, kms, queue>>
    /\ UNCHANGED process

\* openssl x509 -req -in <csr> -CA <ca cert> -CAkey <ca key> -out <cert>:
\* it can succeed only with its three inputs in place, and then writes the
\* certificate of the request's subject issued by the CA certificate.
OpensslX509(out, c, a, f) ==
    IF out.spawned /\ out.status = "success"
    THEN [f EXCEPT ![admin_cert_path(c, a)] =
              Cert(f[admin_csr_path(c, a)][2], f[ca_cert_path(c)][2])]
    ELSE f

OpensslX509Outputs(c, a, f) ==
    {out \in CommandOutputs :
        out.status = "success" =>
            /\ f[admin_csr_path(c, a)] # NoFile
            /\ f[ca_cert_path(c)] # NoFile
            /\ f[ca_key_path(c)] # NoFile}

\* try!(execute_child_process("openssl", &["x509", ..])); Ok(Some(..))
AdminSignOpenssl ==
    /\ pc = "sign_openssl"
    /\ \E out \in OpensslX509Outputs(call.cluster, call.admin, fs) :
          /\ output' = out
          /\ LET r == execute_child_process("openssl", out) IN
             AdminSignReturn(IF r.ok THEN Ok(Some("Client certificate created")) ELSE r,
                             OpensslX509(out, call.cluster, call.admin, fs),
                             encryptor)
          /\ log' = [log EXCEPT
                 !.run.openssl_invoked = TRUE,
                 !.run.commands = Append(@,
                     [program |-> "openssl",
                      args |-> <<"x509", "-req",
                                 "-in", admin_csr_path(call.cluster, call.admin),
                                 "-CA", ca_cert_path(call.cluster),
                                 "-CAkey", ca_key_path(call.cluster),
                                 "-CAcreateserial",
                                 "-out", admin_cert_path(call.cluster, call.admin),
                                 "-days", "365">>,
                      reads |-> {admin_csr_path(call.cluster, call.admin),
                                 ca_cert_path(call.cluster),
                                 ca_key_path(call.cluster)},
                      ok |-> out.spawned /\ out.status = "success"])]
    /\ UNCHANGED <<call, tempdir, child, kms, queue>>
    /\ UNCHANGED process

\* What create_dir_all leaves at the path it is given.
Directory == <<-2>>

\* try!(create_dir_all(format!("clusters/{}", self.cluster)));
AdminCreateDir ==
    /\ pc = "create_dir"
    /\ LET dir == "clusters/" \o call.cluster IN
       \E created \in BOOLEAN :
          /\ log' = [log EXCEPT !.run.commands = Append(@,
                        [program |-> "create_dir_all", args |-> <<dir>>,
                         reads |-> {}, ok |-> created])]
          /\ IF created
             THEN /\ fs' = [fs EXCEPT ![dir] = Directory]
                  /\ pc' = "create_key"
                  /\ UNCHANGED result
             ELSE /\ result' = IoError("create_dir_all")
                  /\ pc' = "returned"
                  /\ UNCHANGED fs
    /\ UNCHANGED <<call, tempdir, child, output, encryptor, kms, queue, process>>

\* create going on to the request when the key could not be generated.
AdminCreateKeyIgnoringFailure ==
    /\ pc = "create_key"
    /\ LET args == <<"genrsa", "-out", admin_key_path(call.cluster, call.admin), "2048">>
       IN
       \E out \in CommandOutputs :
          LET r == execute_child_process("openssl", out) IN
          /\ output' = out
          /\ log' = [log EXCEPT !.run.commands = Append(@,
                        [program |-> "openssl", args |-> args, reads |-> {},
                         ok |-> r.ok])]
          /\ IF r.ok
             THEN \E k \in Serials : fs' = [fs EXCEPT ![args[3]] = Key(k)]
             ELSE UNCHANGED fs
          /\ pc' = "create_csr"
          /\ UNCHANGED result
    /\ UNCHANGED <<call, tempdir, child, encryptor, kms, queue, process>>

\* try!(execute_child_process("openssl", &["genrsa", "-out", &admin_key_path, "2048"]));
\* openssl writes a new key to the file -out names, which it can create
\* only in a directory that exists.
AdminCreateKey ==
    /\ pc = "create_key"
    /\ LET args == <<"genrsa", "-out", admin_key_path(call.cluster, call.admin), "2048">>
       IN
       \E out \in {o \in CommandOutputs :
                      o.status = "success" =>
                          fs["clusters/" \o call.cluster] = Directory} :
          LET r == execute_child_process("openssl", out) IN
          /\ output' = out
          /\ log' = [log EXCEPT !.run.commands = Append(@,
                        [program |-> "openssl", args |-> args, reads |-> {},
                         ok |-> r.ok])]
          /\ IF r.ok
             THEN /\ \E k \in Serials : fs' = [fs EXCEPT ![args[3]] = Key(k)]
                  /\ pc' = "create_csr"
                  /\ UNCHANGED result
             ELSE /\ result' = r
                  /\ pc' = "returned"
                  /\ UNCHANGED fs
    /\ UNCHANGED <<call, tempdir, child, encryptor, kms, queue, process>>

\* try!(execute_child_process("openssl", &["req", "-new", "-key", &admin_key_path,
\*     "-out", &admin_csr_path, "-subj", &format!("/CN={}", self.admin)]));
\* Ok(Some(..)): openssl writes to the file -out names a request for the
\* key in the file -key names.
AdminCreateCsr ==
    /\ pc = "create_csr"
    /\ LET args == <<"req", "-new",
                     "-key", admin_key_path(call.cluster, call.admin),
                     "-out", admin_csr_path(call.cluster, call.admin),
                     "-subj", "/CN=" \o call.admin>>
       IN
       \E out \in {o \in CommandOutputs :
                      o.status = "success" => fs[args[4]] # NoFile} :
          LET r == execute_child_process("openssl", out) IN
          /\ output' = out
          /\ log' = [log EXCEPT !.run.commands = Append(@,
                        [program |-> "openssl", args |-> args,
                         reads |-> {args[4]}, ok |-> r.ok])]
          /\ IF r.ok
             THEN /\ fs' = [fs EXCEPT ![args[6]] = Csr(fs[args[4]][2])]
                  /\ result' = Ok(Some("Certificate signing request created!"))
             ELSE /\ result' = r
                  /\ UNCHANGED fs
          /\ pc' = "returned"
    /\ UNCHANGED <<call, tempdir, child, encryptor, kms, queue, process>>

\* let domain = try!(self.domain()).expect(..): Admin::output gives
\* Ok(Some(..)) whenever the lookup command could be started, so the expect
\* never fails; the lookup's exit status is not looked at.
AdminInstallDomain ==
    /\ pc = "install_domain"
    /\ \E out \in {[spawned |-> FALSE, status |-> "none", stdout |-> ""]}
                  \cup {[spawned |-> TRUE, status |-> st, stdout |-> text] :
                           st \in ExitStatuses, text \in {"example.com", ""}} :
          LET domain == Admin_output(out) IN
          /\ output' = out
          /\ log' = [log EXCEPT !.run.commands = Append(@,
                        [program |-> "kaws",
                         args |-> <<"cluster", "output", call.cluster, "domain">>,
                         reads |-> {},
                         ok |-> out.spawned /\ out.status = "success"])]
          /\ IF ~domain.ok
             THEN /\ result' = domain
                  /\ pc' = "returned"
                  /\ UNCHANGED call
             ELSE /\ call' = [call EXCEPT !.domain = domain.value]
                  /\ pc' = "install_kubectl"
                  /\ UNCHANGED result
    /\ UNCHANGED <<tempdir, child, fs, encryptor, kms, queue, process>>

\* The three kubectl commands of install, with the files --embed-certs=true
\* makes kubectl read.
KubectlSteps(cluster, admin, domain) ==
    << [args |-> <<"config", "set-cluster", "kaws-" \o cluster,
                   "--server=https://kubernetes." \o domain,
                   "--certificate-authority=" \o ca_cert_path(cluster),
                   "--embed-certs=true">>,
        reads |-> {ca_cert_path(cluster)}],
       [args |-> <<"config", "set-credentials", "kaws-" \o cluster \o "-" \o admin,
                   "--client-certificate=" \o admin_cert_path(cluster, admin),
                   "--client-key=" \o admin_key_path(cluster, admin),
                   "--embed-certs=true">>,
        reads |-> {admin_cert_path(cluster, admin), admin_key_path(cluster, admin)}],
       [args |-> <<"config", "set-context", "kaws-" \o cluster,
                   "--cluster=kaws-" \o cluster,
                   "--user=kaws-" \o cluster \o "-" \o admin>>,
        reads |-> {}] >>

\* try!(execute_child_process("kubectl", ..)), three times, then Ok(Some(..)).
\* kubectl can succeed only when the files it has to embed exist.
AdminInstallKubectl ==
    /\ pc = "install_kubectl"
    /\ LET steps == KubectlSteps(call.cluster, call.admin, call.domain.value)
           n == Len(log.run.commands)
           step == steps[n]
       IN
       \E out \in {o \in CommandOutputs :
                      o.status = "success" =>
                          \A p \in step.reads : fs[p] # NoFile} :
          LET r == execute_child_process("kubectl", out) IN
          /\ output' = out
          /\ log' = [log EXCEPT !.run.commands = Append(@,
                        [program |-> "kubectl", args |-> step.args,
                         reads |-> step.reads, ok |-> r.ok])]
          /\ IF ~r.ok
             THEN /\ result' = r
                  /\ pc' = "returned"
             ELSE IF n = Len(steps)
             THEN /\ result' = Ok(Some("Admin credentials installed"))
                  /\ pc' = "returned"
             ELSE UNCHANGED <<result, pc>>
    /\ UNCHANGED <<call, tempdir, child, fs, encryptor, kms, queue, process>>

\* The files the help of a subcommand says the command expects
\* (after_help of admin_install and admin_sign in cli.rs).
ExpectedFiles(subcommand, cluster, name) ==
    LET dir == "clusters/" \o cluster \o "/" IN
    CASE subcommand = "admin install" ->
            {dir \o "k8s-ca.pem", dir \o name \o ".pem", dir \o name \o "-key.pem"}
      [] subcommand = "admin sign" ->
            {dir \o "k8s-ca.pem", dir \o "k8s-ca-key-encrypted.base64",
             dir \o name \o "-csr.pem"}

-----------------------------------------------------------------------------
(* The drivers: src/src/main.rs and src/agent/src/main.rs *)

\* The subcommands of the admin arm and of the cluster arm of execute_cli;
\* "admin", "cluster" and "cluster generate-pki" are the arms' defaults,
\* which print the usage of the group.
AdminSubcommands == {"admin", "admin create", "admin install", "admin sign"}
ClusterSubcommands ==
    {"cluster", "cluster apply", "cluster destroy", "cluster init",
     "cluster generate-pki", "cluster generate-pki all",
     "cluster generate-pki etcd", "cluster generate-pki etcd-peer",
     "cluster generate-pki kubernetes", "cluster output", "cluster plan",
     "cluster refresh"}
UsageSubcommands == {"usage", "admin", "cluster", "cluster generate-pki"}

\* A dispatch whose cluster arm goes to the operation without the check.
EnsuresDependenciesNotForCluster(subcommand) ==
    subcommand \in AdminSubcommands \cup {"init"}

\* The arms of execute_cli that begin with ensure_dependencies()?: admin,
\* cluster and init. The default arm prints the usage without it.
EnsuresDependencies(subcommand) ==
    subcommand \in AdminSubcommands \cup ClusterSubcommands \cup {"init"}

\* execute_cli of kaws and of kaws-agent: the subcommand is dispatched. The
\* admin, cluster and init arms run ensure_dependencies()? and then construct
\* and start the operation; without a known subcommand the usage is printed
\* and Ok(None) returned. ensure_dependencies and the agent (Agent::new,
\* Agent::run) are not among the sources: ensure_dependencies fails when
\* process.dependencies is FALSE, the agent may return any result of its type.
execute_cli ==
    /\ pc = "idle"
    /\ process.state \in {"none", "exited"}
    /\ \E program \in {"kaws", "kaws-agent"}, dependencies \in BOOLEAN :
       \E subcommand \in (IF program = "kaws"
                          THEN AdminSubcommands \cup ClusterSubcommands
                                   \cup {"init", "usage"}
                          ELSE {"run", "usage"}) :
          LET failed == program = "kaws" /\ EnsuresDependencies(subcommand)
                            /\ ~dependencies
          IN
          /\ process' = [state |-> "running", program |-> program,
                         subcommand |-> subcommand,
                         stdout |-> IF subcommand \in UsageSubcommands /\ ~failed
                                    THEN <<"USAGE">> ELSE <<>>,
                         exit_code |-> 0, dependencies |-> dependencies]
          /\ log' = [log EXCEPT !.run = AdminLog]
          /\ output' = NoOutput
          /\ IF failed
             THEN /\ result' = KawsError("dependency missing")
                  /\ pc' = "returned"
                  /\ call' = NoCall
             ELSE IF subcommand \in UsageSubcommands
             THEN /\ result' = Ok(None)
                  /\ pc' = "returned"
                  /\ call' = NoCall
             ELSE IF program = "kaws-agent"
             THEN /\ result' \in {Ok(None), Ok(Some("agent finished")),
                                  Err("string", "agent failed")}
                  /\ pc' = "returned"
                  /\ call' = NoCall
             ELSE \E c \in Clusters, a \in Admins :
                     /\ result' = NoResult
                     /\ call' = [op |-> subcommand, cluster |-> c,
                                 admin |-> a, domain |-> None]
                     /\ pc' = CASE subcommand = "admin create" -> "create_dir"
                                [] subcommand = "admin install" -> "install_domain"
                                [] subcommand = "admin sign" -> "sign_region"
                                [] subcommand = "init" -> "repository_create"
                                [] OTHER -> "cluster_operation"
    /\ UNCHANGED <<tempdir, child, fs, encryptor, kms, queue>>

\* The paths of Repository::create for the repository name "repo".
RepositoryPaths ==
    {"repo/clusters", "repo/terraform/kaws", "repo/.gitignore",
     "repo/terraform/kaws/main.tf"}

\* Repository::create: the two directories, .gitignore with ".terraform\n",
\* then main.tf with the module template (here its first word, "module").
\* The step that fails is the first create_dir_all, the creation of
\* .gitignore, or the write to main.tf; File::create truncates.
RepositoryCreate ==
    /\ pc = "repository_create"
    /\ \E fault \in {"none", "create_dir_all", "create", "write"} :
          LET dirs == [fs EXCEPT !["repo/clusters"] = Directory,
                                 !["repo/terraform/kaws"] = Directory]
              gitignore == <<46, 116, 101, 114, 114, 97, 102, 111, 114, 109, 10>>
              main_tf == <<109, 111, 100, 117, 108, 101>>
              steps == CASE fault = "create_dir_all" -> <<>>
                         [] fault = "create" -> <<"create_dir_all", "create_dir_all">>
                         [] OTHER -> <<"create_dir_all", "create_dir_all",
                                       "File::create", "File::create">>
          IN
          /\ fs' = CASE fault = "create_dir_all" -> fs
                     [] fault = "create" -> dirs
                     [] fault = "write" ->
                            [dirs EXCEPT !["repo/.gitignore"] = gitignore,
                                         !["repo/terraform/kaws/main.tf"] = <<>>]
                     [] OTHER ->
                            [dirs EXCEPT !["repo/.gitignore"] = gitignore,
                                         !["repo/terraform/kaws/main.tf"] = main_tf]
          /\ log' = [log EXCEPT !.run.commands =
                        @ \o [i \in 1..Len(steps) |->
                                 [program |-> steps[i], args |-> <<"repo">>,
                                  reads |-> {}, ok |-> TRUE]]
                          \o (IF fault = "none" THEN <<>>
                              ELSE <<[program |-> fault, args |-> <<"repo">>,
                                      reads |-> {}, ok |-> FALSE]>>)]
          /\ result' = IF fault = "none"
                       THEN Ok(Some("New repository \"repo\" created!"))
                       ELSE IoError(fault)
    /\ pc' = "returned"
    /\ UNCHANGED <<call, tempdir, child, output, encryptor, kms, queue, process>>

\* The operations of the cluster arm (Terraform::new(matches).apply() and the
\* like, NewCluster::new(matches).init(), ExistingCluster::new(matches)
\* .generate_*): their code is not among the sources. Here each runs its
\* tool once and returns its result.
ClusterOperation ==
    /\ pc = "cluster_operation"
    /\ \E ok \in BOOLEAN :
          /\ log' = [log EXCEPT !.run.commands = Append(@,
                        [program |-> IF call.op \in {"cluster init",
                                         "cluster generate-pki all",
                                         "cluster generate-pki etcd",
                                         "cluster generate-pki etcd-peer",
                                         "cluster generate-pki kubernetes"}
                                     THEN "cfssl" ELSE "terraform",
                         args |-> <<call.op>>, reads |-> {}, ok |-> ok])]
          /\ result' = IF ok THEN Ok(None) ELSE KawsError("operation failed")
    /\ pc' = "returned"
    /\ UNCHANGED <<call, tempdir, child, output, fs, encryptor, kms, queue,
                   process>>

\* The driver that exits with code 0 whatever execute_cli returned.
ExitCodeAlwaysZero(res) == 0

\* let mut failed = false; .. Err(error) => { .. failed = true; } ..
\* if failed { exit(1); }
ExitCode(res) == IF res.ok THEN 0 ELSE 1

\* main, once execute_cli has returned: the message or the error is printed
\* (kaws writes "Error:\n{}", kaws-agent "ERROR: {}"; the colours are left
\* out), then the process ends. log.pipeline tells how far the runs that
\* ended last have got with create, sign, install, each succeeding.
main ==
    /\ process.state = "running"
    /\ pc = "returned"
    /\ process' = [process EXCEPT
          !.state = "exited",
          !.stdout = @ \o (IF result.ok
                           THEN IF result.value.some
                                THEN <<result.value.value>> ELSE <<>>
                           ELSE IF process.program = "kaws"
                           THEN <<"Error:\n" \o result.message>>
                           ELSE <<"ERROR: " \o result.message>>),
          !.exit_code = ExitCode(result)]
    /\ log' = [log EXCEPT !.pipeline =
                  LET stages == <<"admin create", "admin sign", "admin install">>
                  IN  IF ~result.ok \/ call = NoCall THEN <<>>
                      ELSE IF Len(@) < Len(stages) /\ call.op = stages[Len(@) + 1]
                      THEN Append(@, call.op)
                      ELSE IF call.op = stages[1] THEN <<call.op>>
                      ELSE <<>>]
    /\ pc' = "idle"
    /\ UNCHANGED <<call, tempdir, child, output, result, fs, encryptor, kms, queue>>

-----------------------------------------------------------------------------
(* The PKI orchestration (cluster.rs: dispatched to by main.rs, not among   *)
(* the sources; modelled from the specification's section 4.4 over the      *)
(* persisting operations of pki.rs)                                         *)

\* The trust domains in generateAll's order, by their subcommand names, and
\* the leaf subjects each subcommand accepts besides "ca".
TrustDomains == <<"kubernetes", "etcd", "etcd-peer">>
Subjects(domain) ==
    CASE domain = "kubernetes" -> <<"masters", "nodes">>
      [] domain = "etcd" -> <<"client", "server">>
      [] domain = "etcd-peer" -> <<"peer">>

\* The file name prefix of a trust domain's artifacts.
Prefix(domain) == IF domain = "kubernetes" THEN "k8s" ELSE domain

\* The produced trust store: ca.pem, ca-key-encrypted.base64, <subject>.pem,
\* <subject>-key-encrypted.base64, and the transient decrypted CA key.
store_cert_path(cluster, domain, subject) ==
    "clusters/" \o cluster \o "/" \o Prefix(domain) \o "-" \o subject \o ".pem"
store_key_path(cluster, domain, subject) ==
    "clusters/" \o cluster \o "/" \o Prefix(domain) \o "-" \o subject
        \o "-key-encrypted.base64"
store_ca_key_path(cluster, domain) ==
    "clusters/" \o cluster \o "/" \o Prefix(domain) \o "-ca-key.pem"

Range(seq) == {seq[i] : i \in 1..Len(seq)}

\* One domain's steps: its CA, then each of its leaf subjects.
DomainSteps(domain) ==
    <<[domain |-> domain, subject |-> "ca"]>>
    \o [i \in 1..Len(Subjects(domain)) |->
            [domain |-> domain, subject |-> Subjects(domain)[i]]]

\* generateAll: CA then every leaf subject for all three domains in order.
generate_pki_all ==
    DomainSteps(TrustDomains[1]) \o DomainSteps(TrustDomains[2])
    \o DomainSteps(TrustDomains[3])

StoreCertPaths ==
    {store_cert_path(c, st.domain, st.subject) :
        c \in Clusters, st \in Range(generate_pki_all)}
StoreKeyPaths ==
    {store_key_path(c, st.domain, st.subject) :
        c \in Clusters, st \in Range(generate_pki_all)}
StoreTransientPaths ==
    {store_ca_key_path(c, d) : c \in Clusters, d \in Range(TrustDomains)}
StorePaths == StoreCertPaths \cup StoreKeyPaths \cup StoreTransientPaths

\* The step of a handler that the environment makes fail.
StoreFaults == {"none", "decrypt", "engine", "create", "write_all", "kms", "io"}
StoreEnv(service, fault, written) ==
    [fault |-> IF fault \in {"decrypt", "engine"} THEN "none" ELSE fault,
     data_key |-> CHOOSE d \in service.data_keys : TRUE,
     authorized |-> service.authorized, written |-> written]

IssuanceError == Err("IssuanceError", "the issuance engine failed")

\* Number of commands an administrator runs. The engine makes new key
\* pairs in every command: the n-th command's CAs are CertificateAuthority(n)
\* and its leaves have the identity LeafSerial(n).
MaxCommands == 2
LeafSerial(n) == MaxCommands + n

\* generateCA: IssuanceClient.generateCA -> persist cert plaintext + key
\* via EnvelopeCrypto. Nothing looks at what the paths already hold.
generate_ca(c, domain, n, enc, f, fault, written, service) ==
    IF fault = "engine" THEN [result |-> IssuanceError, fs |-> f]
    ELSE write_to_files(CertificateAuthority(n), enc,
                        store_cert_path(c, domain, "ca"),
                        store_key_path(c, domain, "ca"), f,
                        StoreEnv(service, fault, written))

\* generateSubject(subject): decrypt the domain CA key to a transient file,
\* call generateLeaf, persist outputs, then destroy the transient key.
generate_subject(c, domain, subject, n, enc, f, fault, written, service) ==
    LET env == StoreEnv(service, fault, written)
        staged == decrypt_file(enc, store_key_path(c, domain, "ca"),
                               store_ca_key_path(c, domain), f,
                               [env EXCEPT !.fault =
                                    IF fault = "decrypt" THEN "kms" ELSE "none"])
        ca_cert == f[store_cert_path(c, domain, "ca")]
        leaf == <<Cert(LeafSerial(n), ca_cert[2]), Key(LeafSerial(n))>>
        cert_written == Certificate_write_to_file(
                            leaf[1], store_cert_path(c, domain, subject),
                            staged.fs, env)
        key_written == PrivateKey_write_to_file(
                           leaf[2], enc, store_key_path(c, domain, subject),
                           cert_written.fs, env)
        done(res, files) ==
            [result |-> res, fs |-> DropEncryptor(staged.encryptor, files)]
    IN  IF ~staged.result.ok THEN done(staged.result, staged.fs)
        ELSE IF fault = "engine" \/ Len(ca_cert) # 3
        THEN done(IssuanceError, staged.fs)
        ELSE IF ~cert_written.result.ok
        THEN done(cert_written.result, cert_written.fs)
        ELSE done(key_written.result, key_written.fs)

StoreCommands ==
    {<<st>> : st \in Range(generate_pki_all)} \cup {generate_pki_all}

StoreLog(master) ==
    [master |-> master, commands |-> 0, done |-> <<>>, failed |-> FALSE,
     first |-> [d \in Range(TrustDomains) |-> None]]

\* kaws cluster generate-pki (all | <domain> <cluster> <subject>)
StoreBegin ==
    /\ pc \in {"idle", "returned"}
    /\ log.commands < MaxCommands
    /\ \E c \in Clusters, steps \in StoreCommands :
          /\ call' = [op |-> "generate_pki", cluster |-> c, steps |-> steps,
                      serial |-> log.commands + 1]
          /\ queue' = steps
    /\ pc' = "store_run"
    /\ result' = NoResult
    /\ encryptor' = Encryptor(Some(log.master))
    /\ log' = [log EXCEPT !.commands = @ + 1, !.done = <<>>, !.failed = FALSE]
    /\ UNCHANGED <<tempdir, child, output, fs, kms>>
    /\ UNCHANGED process

\* The steps left to run after a step: none after a failure.
StoreRemaining(ok, q) == IF ok THEN Tail(q) ELSE <<>>

\* One step of the command: the CA or one leaf subject of a domain.
StoreStep ==
    /\ pc = "store_run"
    /\ queue # <<>>
    /\ \E fault \in StoreFaults :
       \E written \in IF fault = "write_all" THEN PartialWrites ELSE {0} :
          LET st == Head(queue)
              c == call.cluster
              r == IF st.subject = "ca"
                   THEN generate_ca(c, st.domain, call.serial, encryptor, fs,
                                    fault, written, kms)
                   ELSE generate_subject(c, st.domain, st.subject, call.serial,
                                         encryptor, fs, fault, written, kms)
              rest == StoreRemaining(r.result.ok, queue)
              issued == st.subject = "ca" /\ r.result.ok
                        /\ ~log.first[st.domain].some
          IN  /\ fs' = r.fs
              /\ queue' = rest
              /\ log' = [log EXCEPT
                           !.done = Append(@, st),
                           !.failed = ~r.result.ok,
                           !.first[st.domain] =
                               IF issued
                               THEN Some([cert |-> r.fs[store_cert_path(c, st.domain, "ca")],
                                          key |-> r.fs[store_key_path(c, st.domain, "ca")]])
                               ELSE @]
              /\ IF rest = <<>>
                 THEN /\ pc' = "returned"
                      /\ result' = r.result
                      /\ encryptor' = NoEncryptor
                 ELSE UNCHANGED <<pc, result, encryptor>>
    /\ UNCHANGED <<call, tempdir, child, output, kms>>
    /\ UNCHANGED process

-----------------------------------------------------------------------------
(* The rotation protocol (no reencrypt operation is among the sources;      *)
(* modelled from the specification's section 4.5 over the encryptor)        *)

\* The encrypted key artifacts of the cluster that are on disk.
Artifacts(f) == {p \in StoreKeyPaths : f[p] # NoFile}

\* The orders in which a set of artifacts can be gone through.
Orders(S) ==
    {seq \in [1..Cardinality(S) -> S] :
        \A i \in 1..Cardinality(S), j \in 1..Cardinality(S) :
            seq[i] = seq[j] => i = j}

\* Number of steps the environment makes fail, and of rotations run.
MaxFaults == 2
MaxRotations == 2

\* A rotation whose failed write leaves the file truncated.
reencrypt_file_torn(file_path, new, f, env) ==
    IF env.fault = "kms" THEN [result |-> RemoteKeyServiceError, fs |-> f]
    ELSE IF env.fault = "io"
    THEN [result |-> FilesystemError, fs |-> [f EXCEPT ![file_path] = <<>>]]
    ELSE LET plaintext == decrypt(f[file_path], env.authorized) IN
         IF ~plaintext.ok THEN [result |-> plaintext, fs |-> f]
         ELSE encrypt_and_write_file(Encryptor(Some(new)), plaintext.value,
                                     file_path, f, env)

\* decrypt(blob) then encrypt(plaintext, newRef) then overwrite on disk;
\* the old blob remains if any of it fails.
reencrypt_file(file_path, new, f, env) ==
    IF env.fault = "kms" THEN [result |-> RemoteKeyServiceError, fs |-> f]
    ELSE LET plaintext == decrypt(f[file_path], env.authorized) IN
         IF ~plaintext.ok THEN [result |-> plaintext, fs |-> f]
         ELSE encrypt_and_write_file(Encryptor(Some(new)), plaintext.value,
                                     file_path, f, env)

RotateCall(c, current, new) ==
    [op |-> "reencrypt", cluster |-> c, current |-> current, new |-> new]

RotateStart(c, current, new) ==
    /\ call' = RotateCall(c, current, new)
    /\ \E order \in Orders(Artifacts(fs)) : queue' = order
    /\ pc' = "rotate_run"
    /\ result' = NoResult
    /\ log' = [log EXCEPT
                 !.rotations = Append(@, [current |-> current, new |-> new,
                                          ok |-> FALSE]),
                 !.before = fs,
                 !.rotated = {}]
    /\ UNCHANGED <<tempdir, child, output, fs, encryptor, kms>>

\* reencrypt(cluster, currentRef, newRef), for any two master keys.
RotateBegin ==
    /\ pc \in {"idle", "returned"}
    /\ Len(log.rotations) < MaxRotations
    /\ \E c \in Clusters, current \in MasterKeys, new \in MasterKeys :
          current # new /\ RotateStart(c, current, new)
    /\ UNCHANGED process

\* The administrator runs the rotation from the first master key to the
\* other one, and runs it again for as long as it fails.
RetryBegin ==
    /\ pc = "idle" \/ (pc = "returned" /\ ~result.ok)
    /\ \E c \in Clusters, new \in MasterKeys \ {log.master} :
          RotateStart(c, log.master, new)
    /\ UNCHANGED process

\* One artifact of the rotation.
RotateStep ==
    /\ pc = "rotate_run"
    /\ queue # <<>>
    /\ \E env \in Envs(kms, IF log.faults < MaxFaults
                            THEN {"none", "kms", "io"} ELSE {"none"}) :
          LET file_path == Head(queue)
              r == reencrypt_file(file_path, call.new, fs, env)
              rest == IF r.result.ok THEN Tail(queue) ELSE <<>>
          IN  /\ fs' = r.fs
              /\ queue' = rest
              /\ log' = [log EXCEPT
                           !.faults = IF env.fault = "none" THEN @ ELSE @ + 1,
                           !.rotated = IF r.result.ok THEN @ \cup {file_path} ELSE @,
                           !.rotations[Len(log.rotations)].ok =
                               r.result.ok /\ rest = <<>>]
              /\ IF rest = <<>>
                 THEN pc' = "returned" /\ result' = r.result
                 ELSE UNCHANGED <<pc, result>>
    /\ UNCHANGED <<call, tempdir, child, output, encryptor, kms>>
    /\ UNCHANGED process

-----------------------------------------------------------------------------
(* Specifications *)

\* The working tree of the repository.
Paths == AdminPaths \cup StorePaths
EmptyFs == [p \in Paths |-> NoFile]

\* The issuance client and the child-process helper, called in any order.
Init ==
    /\ pc = "idle"
    /\ call = NoCall
    /\ tempdir = NoDir
    /\ child = NoChild
    /\ output = NoOutput
    /\ result = NoResult
    /\ fs = EmptyFs
    /\ encryptor = NoEncryptor
    /\ kms = [authorized |-> {}, data_keys |-> {}]
    /\ queue = <<>>
    /\ log = NewLog
    /\ process = NoProcess

Next ==
    \/ Begin
    \/ temporary_write
    \/ spawn
    \/ write_stdin
    \/ wait_with_output
    \/ finish
    \/ BeginProcess
    \/ RunChildProcess

Spec == Init /\ [][Next]_vars

\* Key material a CertificateAuthority may hold (any bytes the engine printed).
Plaintexts == {Key(1), <<255>>, <<0, 255, 1>>, <<75, 1, 2, 255>>}

\* Admin::sign run, any number of times, in a working tree that holds (or
\* does not hold) a CA persisted by write_to_files under some master key and
\* an administrator's request, by a caller the key service authorizes for
\* some of the master keys.
InitAdmin ==
    /\ pc = "idle"
    /\ call = NoCall
    /\ tempdir = NoDir
    /\ child = NoChild
    /\ output = NoOutput
    /\ result = NoResult
    /\ encryptor = NoEncryptor
    /\ queue = <<>>
    /\ \E authorized \in SUBSET MasterKeys :
          kms = [authorized |-> authorized, data_keys |-> DataKeys]
    /\ \E key \in Plaintexts, master \in MasterKeys, data_key \in DataKeys,
          has_ca \in BOOLEAN, has_csr \in BOOLEAN :
          LET ca == [cert |-> Cert(1, 1), key |-> key]
              c == "demo"
              stored == write_to_files(ca, Encryptor(Some(master)), ca_cert_path(c),
                                       encrypted_ca_key_path(c), EmptyFs,
                                       [fault |-> "none", data_key |-> data_key,
                                        authorized |-> {master}, written |-> 0]).fs
              tree == IF has_ca THEN stored ELSE EmptyFs
          IN  /\ fs = IF has_csr
                      THEN [tree EXCEPT ![admin_csr_path(c, "alice")] = Csr(7)]
                      ELSE tree
              /\ log = [ca |-> ca, has_ca |-> has_ca, master |-> master, run |-> AdminLog]
    /\ process = NoProcess

NextAdmin ==
    \/ AdminSignBegin
    \/ AdminSignRegion
    \/ AdminSignDecrypt
    \/ AdminSignOpenssl

SpecAdmin == InitAdmin /\ [][NextAdmin]_vars

\* kaws and kaws-agent run, one process after another, in a working tree that
\* holds (or does not hold) the cluster's CA as write_to_files persisted it.
InitCli ==
    /\ pc = "idle"
    /\ call = NoCall
    /\ tempdir = NoDir
    /\ child = NoChild
    /\ output = NoOutput
    /\ result = NoResult
    /\ encryptor = NoEncryptor
    /\ queue = <<>>
    /\ process = NoProcess
    /\ \E authorized \in SUBSET MasterKeys :
          kms = [authorized |-> authorized, data_keys |-> {255}]
    /\ \E master \in MasterKeys, has_ca \in BOOLEAN :
          LET ca == [cert |-> Cert(9, 9), key |-> Key(9)]
              c == "demo"
              empty == [p \in Paths \cup {"clusters/" \o c} \cup RepositoryPaths
                           |-> NoFile]
              stored == write_to_files(ca, Encryptor(Some(master)), ca_cert_path(c),
                                       encrypted_ca_key_path(c),
                                       [empty EXCEPT !["clusters/" \o c] = Directory],
                                       [fault |-> "none", data_key |-> 255,
                                        authorized |-> {master}, written |-> 0]).fs
          IN  /\ fs = IF has_ca THEN stored ELSE empty
              /\ log = [ca |-> ca, has_ca |-> has_ca, master |-> master,
                        run |-> AdminLog, pipeline |-> <<>>]

NextCli ==
    \/ execute_cli
    \/ AdminCreateDir
    \/ AdminCreateKey
    \/ AdminCreateCsr
    \/ AdminSignRegion
    \/ AdminSignDecrypt
    \/ AdminSignOpenssl
    \/ AdminInstallDomain
    \/ AdminInstallKubectl
    \/ RepositoryCreate
    \/ ClusterOperation
    \/ main

SpecCli == InitCli /\ [][NextCli]_vars

\* generate-pki commands run one after another in an empty working tree,
\* under one master key, by a caller the key service lets use it.
InitStore ==
    /\ pc = "idle"
    /\ call = NoCall
    /\ tempdir = NoDir
    /\ child = NoChild
    /\ output = NoOutput
    /\ result = NoResult
    /\ encryptor = NoEncryptor
    /\ queue = <<>>
    /\ fs = EmptyFs
    /\ \E master \in MasterKeys :
          /\ kms = [authorized |-> {master}, data_keys |-> {255}]
          /\ log = StoreLog(master)
    /\ process = NoProcess

NextStore ==
    \/ StoreBegin
    \/ StoreStep

SpecStore == InitStore /\ [][NextStore]_vars

\* A trust store that holds the Kubernetes CA, the masters' leaf and the
\* etcd CA, persisted under one master key, on which rotations are run.
InitRotate ==
    /\ pc = "idle"
    /\ call = NoCall
    /\ tempdir = NoDir
    /\ child = NoChild
    /\ output = NoOutput
    /\ result = NoResult
    /\ encryptor = NoEncryptor
    /\ queue = <<>>
    /\ \E master \in MasterKeys, data_key \in DataKeys, key \in Plaintexts,
          both \in BOOLEAN :
          LET authorized == IF both THEN MasterKeys ELSE {master}
              enc == Encryptor(Some(master))
              env == [fault |-> "none", data_key |-> data_key,
                      authorized |-> {master}, written |-> 0]
              c == "demo"
              k8s == write_to_files([cert |-> Cert(1, 1), key |-> key], enc,
                                    store_cert_path(c, "kubernetes", "ca"),
                                    store_key_path(c, "kubernetes", "ca"),
                                    EmptyFs, env).fs
              masters == PrivateKey_write_to_file(
                             Key(2), enc, store_key_path(c, "kubernetes", "masters"),
                             Certificate_write_to_file(
                                 Cert(2, 1), store_cert_path(c, "kubernetes", "masters"),
                                 k8s, env).fs,
                             env).fs
              etcd == write_to_files(CertificateAuthority(2), enc,
                                     store_cert_path(c, "etcd", "ca"),
                                     store_key_path(c, "etcd", "ca"),
                                     masters, env).fs
          IN  /\ fs = etcd
              /\ kms = [authorized |-> authorized, data_keys |-> {data_key}]
              /\ log = [master |-> master,
                        original |->
                            (store_key_path(c, "kubernetes", "ca") :> key)
                            @@ (store_key_path(c, "kubernetes", "masters") :> Key(2))
                            @@ (store_key_path(c, "etcd", "ca") :> Key(2)),
                        rotations |-> <<>>, faults |-> 0, before |-> etcd,
                        rotated |-> {}]
    /\ process = NoProcess

NextRotate ==
    \/ RotateBegin
    \/ RotateStep

SpecRotate == InitRotate /\ [][NextRotate]_vars

\* The administrator retrying one rotation with both master keys available:
\* a command that is started runs to its end, and a failed one is run again.
InitRetry == InitRotate /\ kms.authorized = MasterKeys

NextRetry ==
    \/ RetryBegin
    \/ RotateStep

LiveRotate == InitRetry /\ [][NextRetry]_vars /\ WF_vars(NextRetry)

-----------------------------------------------------------------------------
(* Claims about the issuance client and the child-process helper (Spec) *)

C10_ExitStatusDecides ==
    LET required ==
            CASE call.op \in {"generate", "generate_cert"} -> {"cert", "key"}
              [] call.op = "sign" -> {"cert"}
              [] call.op = "csr_generate" -> {"csr", "key"}
              [] OTHER -> {}
    IN  pc = "returned" =>
            /\ (output.status = "failure" => ~result.ok)
            /\ (result.ok =>
                    /\ output.status = "success"
                    /\ (call.op \in IssuanceOps =>
                            /\ output.stdout.json
                            /\ required \subseteq output.stdout.fields))

\* The engine exited non-zero after printing a complete response, and the
\* operation returned an error.
C10_Witness ==
    /\ pc = "returned"
    /\ call.op = "generate"
    /\ output.status = "failure"
    /\ output.stdout.json
    /\ output.stdout.fields = {"cert", "key"}
    /\ ~result.ok

-----------------------------------------------------------------------------
(* Claims about the administrator flow (SpecAdmin) *)

\* C2: the decrypted CA private key file clusters/<cluster>/ca-key.pem is on
\* disk only while Admin::sign is running its signing step; once sign has
\* returned, with success or with a failure after the decryption, it is gone.
C2_PlaintextCaKeyOnlyWhileSignRuns ==
    \A c \in Clusters :
        fs[ca_key_path(c)] # NoFile =>
            /\ pc = "sign_openssl"
            /\ call.cluster = c
            /\ ca_key_path(c) \in encryptor.decrypted_files

\* sign has returned an error from the signing step that followed a
\* successful decryption, and the plaintext key file is not there.
C2_Witness ==
    /\ pc = "returned"
    /\ call.op = "admin_sign"
    /\ log.run.decrypted
    /\ log.run.openssl_invoked
    /\ ~result.ok
    /\ fs[ca_key_path(call.cluster)] = NoFile

\* C6: decrypt(encrypt(P, K)) is exactly P for every plaintext P and every
\* master key K the caller is authorized for; a CA key persisted by
\* write_to_files and read back by sign's decrypt_file, by a caller
\* authorized for its master key and with no step failing, is decrypted, and
\* the file sign works on holds the original key bytes.
C6_DecryptInvertsEncrypt ==
    /\ \A P \in Plaintexts, K \in MasterKeys, d \in DataKeys :
          decrypt(encrypt(P, K, d, {K}).value, {K}) = Ok(P)
    /\ (/\ log.run.decrypt_attempted
        /\ log.has_ca
        /\ log.master \in kms.authorized
        /\ log.run.fault = "none") => log.run.decrypted
    /\ pc = "sign_openssl" => fs[ca_key_path(call.cluster)] = log.ca.key

\* sign holds the decrypted key of a CA whose key bytes are not printable
\* key text, stored under a master key the caller is authorized for.
C6_Witness ==
    /\ pc = "sign_openssl"
    /\ log.run.decrypted
    /\ log.master \in kms.authorized
    /\ log.ca.key = <<0, 255, 1>>
    /\ fs[ca_key_path(call.cluster)] = <<0, 255, 1>>

\* C7: sign's encryptor carries no master key id (None): the key is the one
\* the blob names. When the stored CA key was encrypted under a master key
\* the caller is not authorized for, the decryption never succeeds: sign
\* returns an error (the remote key service's, when nothing else failed
\* first), no plaintext is written and the signing step is not reached.
C7_WrongKeyNeverDecrypts ==
    /\ log.run.decrypt_attempted => log.run.key_id = None
    /\ (/\ log.run.decrypt_attempted
        /\ log.has_ca
        /\ log.master \notin kms.authorized) =>
            /\ ~log.run.decrypted
            /\ ~log.run.openssl_invoked
            /\ pc = "returned"
            /\ ~result.ok
            /\ log.run.fault = "none" => result = RemoteKeyServiceError
            /\ fs[ca_key_path(call.cluster)] = NoFile

\* A caller authorized only for master key 2 has run sign on a CA key
\* stored under master key 1, and got the remote key service's error.
C7_Witness ==
    /\ pc = "returned"
    /\ log.run.decrypt_attempted
    /\ log.has_ca
    /\ log.master = 1
    /\ kms.authorized = {2}
    /\ log.run.fault = "none"
    /\ result = RemoteKeyServiceError

-----------------------------------------------------------------------------
(* Claims about the trust store (SpecStore) *)

\* C3: every private key at a persistent trust-store path went through the
\* encryptor: the path never holds the key's plaintext bytes, it holds a blob
\* that decrypts under the master key to a key; certificates are written as
\* they are (a failed write leaves a prefix) and no blob holds a certificate;
\* a step that succeeded left exactly its certificate and its encrypted key.
C3_KeysEncryptedCertsPlain ==
    /\ \A p \in StoreKeyPaths :
          fs[p] # NoFile =>
              /\ \A n \in 1..(2 * MaxCommands) : fs[p] # Key(n)
              /\ decrypt(fs[p], {log.master}).ok
              /\ decrypt(fs[p], {log.master}).value
                    \in {Key(n) : n \in 1..(2 * MaxCommands)}
    /\ \A p \in StoreCertPaths :
          fs[p] # NoFile =>
              /\ ~(IsBase64(fs[p]) /\ Len(fs[p]) > 0)
              /\ \E n \in 1..(2 * MaxCommands), i \in 1..MaxCommands,
                    w \in PartialWrites \cup {3} :
                    fs[p] = SubSeq(Cert(n, i), 1, w)
    /\ (pc = "returned" /\ call.op = "generate_pki" /\ result.ok) =>
          LET st == log.done[Len(log.done)]
              n == IF st.subject = "ca" THEN call.serial ELSE LeafSerial(call.serial)
          IN  /\ fs[store_cert_path(call.cluster, st.domain, st.subject)]
                    \in {Cert(n, i) : i \in 1..MaxCommands}
              /\ decrypt(fs[store_key_path(call.cluster, st.domain, st.subject)],
                         {log.master}) = Ok(Key(n))

\* The Kubernetes CA and the masters' certificate and key have been
\* persisted by commands that succeeded.
C3_Witness ==
    /\ pc = "returned"
    /\ result.ok
    /\ fs[store_key_path("demo", "kubernetes", "ca")] # NoFile
    /\ fs[store_key_path("demo", "kubernetes", "masters")] # NoFile
    /\ fs[store_cert_path("demo", "kubernetes", "masters")] \in
          {Cert(LeafSerial(n), i) : n \in 1..MaxCommands, i \in 1..MaxCommands}

\* C4: once a trust domain's CA has been issued, its persisted certificate
\* and encrypted key stay what they were when it was first issued, whatever
\* CA-generation and subject-generation commands follow.
C4_IssuedCaNeverReplaced ==
    \A c \in Clusters, d \in Range(TrustDomains) :
        log.first[d].some =>
            /\ fs[store_cert_path(c, d, "ca")] = log.first[d].value.cert
            /\ fs[store_key_path(c, d, "ca")] = log.first[d].value.key

\* C5: generateAll runs the Kubernetes CA, masters, nodes, the etcd CA,
\* client, server, the etcd-peer CA, peer, in this order; after the first
\* step that fails it has returned the error with no later step run; the
\* certificate and the encrypted key of every step that succeeded are on
\* disk as that step wrote them.
C5_GenerateAllOrderAbortNoRollback ==
    (call.op = "generate_pki" /\ call.steps = generate_pki_all) =>
        /\ Len(log.done) <= 8
        /\ log.done =
             SubSeq(<<[domain |-> "kubernetes", subject |-> "ca"],
                      [domain |-> "kubernetes", subject |-> "masters"],
                      [domain |-> "kubernetes", subject |-> "nodes"],
                      [domain |-> "etcd", subject |-> "ca"],
                      [domain |-> "etcd", subject |-> "client"],
                      [domain |-> "etcd", subject |-> "server"],
                      [domain |-> "etcd-peer", subject |-> "ca"],
                      [domain |-> "etcd-peer", subject |-> "peer"]>>,
                    1, Len(log.done))
        /\ log.failed => pc = "returned" /\ ~result.ok /\ queue = <<>>
        /\ (pc = "returned" /\ ~log.failed) => Len(log.done) = 8 /\ result.ok
        /\ \A i \in 1..Len(log.done) :
              (i < Len(log.done) \/ ~log.failed) =>
                  LET n == IF log.done[i].subject = "ca" THEN call.serial
                           ELSE LeafSerial(call.serial)
                  IN  /\ fs[store_cert_path(call.cluster, log.done[i].domain,
                                            log.done[i].subject)]
                            = Cert(n, call.serial)
                      /\ decrypt(fs[store_key_path(call.cluster, log.done[i].domain,
                                                   log.done[i].subject)],
                                 {log.master}) = Ok(Key(n))

\* generateAll has failed at the etcd CA, its fourth step: it returned the
\* error, and the three Kubernetes artifacts it wrote before are on disk.
C5_Witness ==
    /\ pc = "returned"
    /\ call.op = "generate_pki"
    /\ call.steps = generate_pki_all
    /\ log.failed
    /\ Len(log.done) = 4
    /\ fs[store_cert_path("demo", "kubernetes", "nodes")] # NoFile
    /\ fs[store_key_path("demo", "kubernetes", "nodes")] # NoFile
    /\ fs[store_key_path("demo", "etcd", "ca")] = NoFile

-----------------------------------------------------------------------------
(* Claims about the rotation protocol (SpecRotate, LiveRotate) *)

\* C8: with the store under master key K1, once reencrypt(cluster, K1, K2)
\* has succeeded, decrypting any artifact with only K1 available fails; once
\* reencrypt(cluster, K2, K1) has succeeded after it, every artifact decrypts
\* with only K1 available to its original plaintext.
C8_RotateThereAndBack ==
    LET K1 == log.master
        r == log.rotations
    IN  /\ (/\ pc = "returned"
            /\ Len(r) = 1
            /\ r[1].ok /\ r[1].current = K1 /\ r[1].new # K1) =>
                \A p \in Artifacts(fs) :
                    /\ ~decrypt(fs[p], {K1}).ok
                    /\ decrypt(fs[p], {r[1].new}) = Ok(log.original[p])
        /\ (/\ pc = "returned"
            /\ Len(r) = 2
            /\ r[1].ok /\ r[1].current = K1 /\ r[1].new # K1
            /\ r[2].ok /\ r[2].current = r[1].new /\ r[2].new = K1) =>
                /\ Artifacts(fs) = DOMAIN log.original
                /\ \A p \in Artifacts(fs) :
                       decrypt(fs[p], {K1}) = Ok(log.original[p])

\* Both rotations have succeeded, on a store whose CA key is not key text.
C8_Witness ==
    /\ pc = "returned"
    /\ Len(log.rotations) = 2
    /\ log.rotations[1] = [current |-> 1, new |-> 2, ok |-> TRUE]
    /\ log.rotations[2] = [current |-> 2, new |-> 1, ok |-> TRUE]
    /\ log.master = 1
    /\ log.original[store_key_path("demo", "kubernetes", "ca")] = <<0, 255, 1>>
    /\ decrypt(fs[store_key_path("demo", "kubernetes", "ca")], {1})
          = Ok(<<0, 255, 1>>)

\* C9: when reencrypt fails on some artifact, the artifacts already rotated
\* stay under the new key, the failing one and the ones not yet processed
\* keep the blob they held when the rotation began, and each artifact
\* decrypts, under the key its blob names, to its original plaintext (none
\* is decryptable under neither key); run again with both keys available
\* for as long as it fails, the rotation eventually leaves every artifact
\* under the new key for good.
C9_PartialRotationThenRetry ==
    /\ [](\A p \in DOMAIN log.original :
            /\ p \notin log.rotated => fs[p] = log.before[p]
            /\ IsBase64(fs[p]) /\ Len(fs[p]) >= 4
            /\ p \in log.rotated => MasterKeyOf(fs[p]) = call.new
            /\ MasterKeyOf(fs[p]) \in MasterKeys
            /\ decrypt(fs[p], {MasterKeyOf(fs[p])}) = Ok(log.original[p]))
    /\ <>[](/\ call.op = "reencrypt"
            /\ \A p \in DOMAIN log.original :
                  /\ IsBase64(fs[p]) /\ Len(fs[p]) >= 4
                  /\ MasterKeyOf(fs[p]) = call.new
                  /\ decrypt(fs[p], {call.new}) = Ok(log.original[p]))

\* A rotation failed after it had rotated some artifact and before it had
\* rotated all: the store is part under the new key, part under the old.
C9_Witness ==
    /\ pc = "returned"
    /\ ~result.ok
    /\ log.rotated # {}
    /\ \E p \in DOMAIN log.original, q \in DOMAIN log.original :
          /\ MasterKeyOf(fs[p]) = call.new
          /\ MasterKeyOf(fs[q]) = call.current
          /\ fs[q] = log.before[q]

-----------------------------------------------------------------------------
(* Further claims about the issuance client (Spec) *)

\* C11: the request payload that generate, generate_cert and
\* CertificateSigningRequest::generate have written to the engine's stdin is
\* one JSON object: it opens with a brace, its braces are balanced, the
\* object closes at the last token and not before, its CN member is the
\* given common name and its key member is {algo: rsa, size: 2048}.
C11_PayloadIsOneJsonObject ==
    (child.state # "none" /\ child.stdin.some /\ call.op # "sign") =>
        LET tokens == RequestTokens(call.common_name)
            depth[k \in 0..Len(tokens)] ==
                IF k = 0 THEN 0
                ELSE depth[k - 1] + (IF tokens[k] = "{" THEN 1
                                     ELSE IF tokens[k] = "}" THEN -1 ELSE 0)
        IN
        /\ child.stdin.value = Join(tokens, "")
        /\ tokens[1] = "{"
        /\ SubSeq(tokens, 2, 4) = <<"\"CN\"", ":", "\"" \o call.common_name \o "\"">>
        /\ SubSeq(tokens, 6, 16) =
              <<"\"key\"", ":", "{", "\"algo\"", ":", "\"rsa\"", ",",
                "\"size\"", ":", "2048", "}">>
        /\ \A i \in 1..(Len(tokens) - 1) : depth[i] > 0
        /\ depth[Len(tokens)] = 0

\* C12: generate_cert passes the engine a -hostname flag if and only if a
\* SAN list is supplied, and the flag's value is the supplied names in order
\* joined by commas. An argument is a flag of the command when the engine's
\* flag parser reaches it: flags follow the subcommand, each value flag
\* takes the next argument, and the first operand (here "-", the request on
\* stdin) ends the flags; what follows an operand is an operand.
C12_HostnameFlagIffSan ==
    (child.state # "none" /\ call.op = "generate_cert") =>
        LET args == child.args
            n == Len(args)
            flags[i \in 1..(n + 1)] ==
                IF i > n THEN {}
                ELSE IF args[i] \in {"-ca", "-ca-key", "-hostname"} /\ i < n
                     THEN {<<args[i], args[i + 1]>>} \cup flags[i + 2]
                ELSE {}
            san == call.san
            joined[k \in 1..Len(san.value)] ==
                IF k = 1 THEN san.value[1]
                ELSE joined[k - 1] \o "," \o san.value[k]
        IN  /\ args[1] = "gencert"
            /\ san.some =>
                 {f \in flags[2] : f[1] = "-hostname"} =
                     {<<"-hostname", joined[Len(san.value)]>>}
            /\ ~san.some =>
                 \A i \in 1..n : args[i] # "-hostname"

\* C13: while the engine runs for generate_cert or sign on an authority X,
\* the files named by -ca and -ca-key hold X's certificate and X's key byte
\* for byte; a certificate the operation returns has X's subject as issuer,
\* never that of another authority.
C13_IssuedByOwnAuthority ==
    /\ (call.op \in StagingOps /\ pc \in {"stdin", "wait", "status"}) =>
          /\ tempdir.exists
          /\ tempdir.cert_pem = call.ca.cert
          /\ tempdir.key_pem = call.ca.key
          /\ SubSeq(child.args, 2, 5) = <<"-ca", cert_path, "-ca-key", key_path>>
    /\ (call.op \in StagingOps /\ pc = "returned" /\ result.ok) =>
          LET cert == IF call.op = "sign" THEN result.value ELSE result.value[1]
          IN  /\ cert[3] = call.ca.cert[2]
              /\ \A n \in Serials :
                    CertificateAuthority(n) # call.ca =>
                        cert[3] # CertificateAuthority(n).cert[2]

C13_Witness ==
    /\ pc = "returned"
    /\ call.op = "sign"
    /\ call.ca = CertificateAuthority(2)
    /\ result.ok
    /\ result.value = Cert(call.csr[2], 2)

-----------------------------------------------------------------------------
(* Claims about the drivers and the administrator commands (SpecCli) *)

\* C14: a kaws or kaws-agent process that has ended has exit code 1 exactly
\* when the dispatched operation returned an error and exit code 0
\* otherwise, and the error it returned is the last thing the process
\* printed before it ended.
C14_ExitCodeReportsError ==
    process.state = "exited" =>
        /\ process.exit_code = 1 <=> ~result.ok
        /\ result.ok => process.exit_code = 0
        /\ ~result.ok =>
              /\ process.stdout # <<>>
              /\ process.stdout[Len(process.stdout)] =
                    (IF process.program = "kaws" THEN "Error:\n" ELSE "ERROR: ")
                        \o result.message

C14_Witness ==
    /\ process.state = "exited"
    /\ process.program = "kaws"
    /\ process.subcommand = "admin sign"
    /\ log.run.decrypt_attempted
    /\ ~log.run.decrypted
    /\ ~result.ok
    /\ process.exit_code = 1

\* C16: every step of admin create leaves the run in this shape: the
\* commands run so far are, in order, create_dir_all of clusters/<cluster>,
\* openssl genrsa writing clusters/<cluster>/<admin>-key.pem, and openssl req
\* reading that key and writing clusters/<cluster>/<admin>-csr.pem with
\* subject /CN=<admin>; a command that failed is the last one run; no
\* encryptor exists and the key service is not called; a step changes no
\* path but the directory, the key and the request; and when create has
\* succeeded the key file holds a key in plaintext and the request file the
\* request for that key.
C16_CreateWritesKeyThenCsr ==
    [][(call.op = "admin create" /\ process.state = "running"
            /\ call' = call /\ process' = process) =>
        LET dir == "clusters/" \o call.cluster
            key == dir \o "/" \o call.admin \o "-key.pem"
            csr == dir \o "/" \o call.admin \o "-csr.pem"
            expected ==
                << [program |-> "create_dir_all", args |-> <<dir>>],
                   [program |-> "openssl",
                    args |-> <<"genrsa", "-out", key, "2048">>],
                   [program |-> "openssl",
                    args |-> <<"req", "-new", "-key", key, "-out", csr,
                               "-subj", "/CN=" \o call.admin>>] >>
            run == log'.run.commands
        IN  /\ Len(run) <= Len(expected)
            /\ \A i \in 1..Len(run) :
                  /\ run[i].program = expected[i].program
                  /\ run[i].args = expected[i].args
                  /\ i < Len(run) => run[i].ok
            /\ encryptor' = NoEncryptor
            /\ kms' = kms
            /\ ~log'.run.decrypt_attempted
            /\ \A p \in DOMAIN fs \ {dir, key, csr} : fs'[p] = fs[p]
            /\ (pc' = "returned" /\ result'.ok) =>
                  /\ Len(run) = Len(expected)
                  /\ \E k \in Serials : fs'[key] = Key(k) /\ fs'[csr] = Csr(k)
                  /\ ~IsBase64(fs'[key])
                  /\ ~IsBase64(fs'[csr])
            /\ (pc' = "returned" /\ ~result'.ok) =>
                  /\ ~run[Len(run)].ok
                  /\ (Len(run) = 2 => fs'[csr] = fs[csr])
    ]_vars

C16_Witness ==
    /\ process.state = "running"
    /\ call.op = "admin create"
    /\ pc = "returned"
    /\ result.ok
    /\ fs[admin_key_path(call.cluster, call.admin)] = Key(2)
    /\ fs[admin_csr_path(call.cluster, call.admin)] = Csr(2)

C18_ReadsWhatHelpNames ==
    (process.state = "running" /\ pc = "returned" /\ result.ok
        /\ call.op \in {"admin sign", "admin install"}) =>
        LET run == log.run.commands
            read == UNION {run[i].reads : i \in 1..Len(run)}
            own == {run[i].args[2] : i \in {j \in 1..Len(run) :
                                               run[j].program = "decrypt_file"}}
        IN  read \ own = ExpectedFiles(call.op, call.cluster, call.admin)

-----------------------------------------------------------------------------
(* A further claim about the administrator flow (SpecAdmin) *)

\* C19: in Admin::sign the signing command runs only after the CA key has
\* been decrypted; the region step and the decryption step never invoke it
\* and leave the administrator's certificate file as it was, and when sign
\* returns from one of these two steps it returns an error.
C19_NoSigningWithoutDecryptedKey ==
    [][(call.op = "admin_sign" /\ call' = call) =>
        LET cert == admin_cert_path(call.cluster, call.admin) IN
        /\ pc \in {"sign_region", "sign_decrypt"} =>
              /\ fs'[cert] = fs[cert]
              /\ ~log'.run.openssl_invoked
              /\ pc' = "returned" => ~result'.ok
              /\ pc' \in {"returned", IF pc = "sign_region"
                                      THEN "sign_decrypt" ELSE "sign_openssl"}
        /\ pc' = "sign_openssl" =>
              log'.run.decrypt_attempted /\ log'.run.decrypted
        /\ log'.run.openssl_invoked => log'.run.decrypted
    ]_vars

\* A second run of sign has failed in the decryption, and the certificate
\* an earlier run wrote is still there.
C19_Witness ==
    /\ pc = "returned"
    /\ call.op = "admin_sign"
    /\ log.run.decrypt_attempted
    /\ ~log.run.decrypted
    /\ ~log.run.openssl_invoked
    /\ ~result.ok
    /\ fs[admin_cert_path(call.cluster, call.admin)] = Cert(7, 1)

-----------------------------------------------------------------------------
(* A further claim about the administrator commands (SpecCli) *)

\* C20: the commands admin install has run are, in order, the domain lookup,
\* kubectl config set-cluster, set-credentials and set-context; a command
\* that failed (the lookup exiting non-zero included) is the last one run,
\* and install then returns an error; and kubectl set-cluster is never given
\* a server address with an empty domain.
C20_InstallAbortsOnAnyFailure ==
    call.op = "admin install" =>
        LET run == log.run.commands
            expected == <<"output", "set-cluster", "set-credentials", "set-context">>
        IN  /\ Len(run) <= Len(expected)
            /\ \A i \in 1..Len(run) :
                  /\ run[i].program = IF i = 1 THEN "kaws" ELSE "kubectl"
                  /\ run[i].args[2] = expected[i]
                  /\ i < Len(run) => run[i].ok
                  /\ run[i].args[2] = "set-cluster" =>
                        run[i].args[4] # "--server=https://kubernetes."
            /\ (pc = "returned" /\ \E i \in 1..Len(run) : ~run[i].ok) => ~result.ok

-----------------------------------------------------------------------------
(* Further claims about the issuance client (Spec) *)

\* C26: the argument vector generate_cert starts the engine with holds the
\* stdin marker "-" exactly once, as its last argument, with or without a
\* SAN list; taking the -hostname flag and its value out of the vector built
\* for a SAN list gives the vector built without one.
C26_StdinMarkerOnceAndLast ==
    (child.state # "none" /\ call.op = "generate_cert") =>
        LET args == child.args
            n == Len(args)
            plain == <<"gencert", "-ca", cert_path, "-ca-key", key_path, "-">>
        IN  /\ Cardinality({i \in 1..n : args[i] = "-"}) = 1
            /\ args[n] = "-"
            /\ ~call.san.some => args = plain
            /\ call.san.some =>
                  /\ n = Len(plain) + 2
                  /\ \E i \in 1..(n - 1) :
                        /\ args[i] = "-hostname"
                        /\ SubSeq(args, 1, i - 1) \o SubSeq(args, i + 2, n) = plain

\* C25: generate_cert and sign return Ok only with the temporary directory
\* removed. When the engine has been waited for and its outcome is decided
\* (a non-zero exit, or a zero exit with a response that parses), a failed
\* removal of the directory makes the operation return the removal's error
\* instead of the issued material or of the engine's failure; with the
\* removal succeeding the engine's outcome is returned.
C25_RemovalErrorReplacesOutcome ==
    (pc = "returned" /\ call.op \in StagingOps) =>
        /\ result.ok => ~tempdir.exists /\ ~log.remove_failed
        /\ (/\ child.state = "reaped"
            /\ output.status = "failure" \/ Parses(call, output.stdout)) =>
              IF log.remove_failed
              THEN /\ tempdir.exists
                   /\ result = IoError("remove_dir_all")
              ELSE /\ ~tempdir.exists
                   /\ output.status = "failure" =>
                         ~result.ok /\ result.kind = "kaws"
                   /\ output.status = "success" =>
                         result = Ok(Value(call, output.stdout))

\* The engine issued a certificate and a key, the directory could not be
\* removed, and generate_cert returned the removal's error.
C25_Witness ==
    /\ pc = "returned"
    /\ call.op = "generate_cert"
    /\ child.state = "reaped"
    /\ output.status = "success"
    /\ Parses(call, output.stdout)
    /\ log.remove_failed
    /\ result = IoError("remove_dir_all")

\* C24: in generate_cert and sign the temporary directory with the CA key
\* is on disk for as long as the spawned engine has not been waited for, and
\* when the operation has returned no engine it spawned is left unwaited,
\* also when writing the request to the engine's stdin failed.
C24_EngineReapedBeforeCleanup ==
    call.op \in StagingOps =>
        /\ child.state = "running" => tempdir.exists
        /\ pc = "returned" => child.state \in {"none", "reaped"}

-----------------------------------------------------------------------------
(* A further claim about the trust store (SpecStore) *)

\* C23: in every state CA generation and persistence leaves behind, the CA
\* certificate file and the encrypted CA key file of each trust domain are
\* both absent, or they are the certificate of one CertificateAuthority and
\* the blob that decrypts to the key of the same one.
C23_CaCertAndKeyOfOneAuthority ==
    \A c \in Clusters, d \in Range(TrustDomains) :
        LET cert == fs[store_cert_path(c, d, "ca")]
            key == fs[store_key_path(c, d, "ca")]
        IN  \/ cert = NoFile /\ key = NoFile
            \/ /\ cert # NoFile
               /\ key # NoFile
               /\ \E n \in 1..(MaxCommands + 1) :
                     /\ cert = CertificateAuthority(n).cert
                     /\ decrypt(key, {log.master}) = Ok(CertificateAuthority(n).key)

-----------------------------------------------------------------------------
(* Argument validation of cluster init (cli.rs) *)

\* The versions the command line is given: two or three dot-separated
\* components, with or without a leading 'v'.
MaxMajor == 2
MaxMinor == 10
MaxPatch == 9

VersionComponents ==
    {<<major, minor>> : major \in 0..MaxMajor, minor \in 0..MaxMinor}
        \cup {<<major, minor, patch>> :
                 major \in 0..MaxMajor, minor \in 0..MaxMinor,
                 patch \in 0..MaxPatch}

\* The bytes of the argument, e.g. "1.0.0": every component in decimal
\* ('0' is 48), joined with '.' (46), after 'v' (118) when there is one.
VersionString(components, leading_v) ==
    LET Decimal[n \in 0..99] ==
            IF n < 10 THEN <<48 + n>>
            ELSE Decimal[n \div 10] \o <<48 + (n % 10)>>
        Dotted[i \in 1..Len(components)] ==
            IF i = 1 THEN Decimal[components[1]]
            ELSE Dotted[i - 1] \o <<46>> \o Decimal[components[i]]
    IN  (IF leading_v THEN <<118>> ELSE <<>>) \o Dotted[Len(components)]

\* a < b for str: the bytes are compared lexicographically, a proper prefix
\* being the smaller one.
StrLt(a, b) ==
    \E i \in 1..Len(b) :
        /\ \A j \in 1..(i - 1) : j <= Len(a) /\ a[j] = b[j]
        /\ i > Len(a) \/ a[i] < b[i]

\* The validator of --kubernetes-version; "1.7" is <<49, 46, 55>>.
validator(version) ==
    IF Len(version) > 0 /\ version[1] = 118
    THEN Err("validator",
             "Kubernetes version should be specified without the leading 'v'")
    ELSE IF ~StrLt(version, <<49, 46, 55>>)
    THEN Ok(None)
    ELSE Err("validator",
             "This version of kaws supports only Kubernetes 1.7.0 or greater")

\* kaws cluster init ... --kubernetes-version <version>, not yet parsed.
InitValidate ==
    /\ pc = "idle"
    /\ \E components \in VersionComponents, leading_v \in BOOLEAN :
          call = [op |-> "cluster init", components |-> components,
                  leading_v |-> leading_v,
                  version |-> VersionString(components, leading_v)]
    /\ tempdir = NoDir
    /\ child = NoChild
    /\ output = NoOutput
    /\ result = NoResult
    /\ encryptor = NoEncryptor
    /\ queue = <<>>
    /\ fs = EmptyFs
    /\ kms = [authorized |-> {}, data_keys |-> {}]
    /\ log = [run |-> AdminLog]
    /\ process = NoProcess

\* The argument parser calls the validator on the value it was given.
Validate ==
    /\ pc = "idle"
    /\ call.op = "cluster init"
    /\ result' = validator(call.version)
    /\ pc' = "returned"
    /\ UNCHANGED <<call, tempdir, child, output, fs, encryptor, kms, queue,
                   log, process>>

SpecValidate == InitValidate /\ [][Validate]_vars

\* C22: the validator accepts a version exactly when it has no leading 'v'
\* and its dot-separated components, compared as numbers, are 1.7.0 or
\* greater (1.10.0 and 2.0.0 accepted, 1.6.9 rejected).
C22_AcceptsNumericallyAtLeast_1_7_0 ==
    (pc = "returned" /\ call.op = "cluster init") =>
        LET c == call.components
            AtLeast == c[1] > 1 \/ (c[1] = 1 /\ c[2] >= 7)
        IN  result.ok <=> (~call.leading_v /\ AtLeast)

-----------------------------------------------------------------------------
(* A claim about the dependency check of the kaws driver (SpecCli) *)

\* C21: a kaws run of an admin, cluster or init subcommand whose dependency
\* check fails returns the dependency error from execute_cli with no
\* operation constructed and nothing done (no file written, no command run,
\* no key-service call, no child process), and the only step that follows is
\* main ending the process with exit code 1, again with nothing done.
C21_DependencyCheckBeforeOperation ==
    [][LET checked(p) ==
               /\ p.state = "running"
               /\ p.program = "kaws"
               /\ p.subcommand \in AdminSubcommands \cup ClusterSubcommands
                                       \cup {"init"}
               /\ ~p.dependencies
           untouched ==
               /\ fs' = fs
               /\ kms' = kms
               /\ encryptor' = encryptor
               /\ child' = child
               /\ tempdir' = tempdir
               /\ log'.run.commands = <<>>
               /\ ~log'.run.decrypt_attempted
               /\ ~log'.run.openssl_invoked
       IN  /\ (process.state # "running" /\ checked(process')) =>
                 /\ result' = KawsError("dependency missing")
                 /\ pc' = "returned"
                 /\ call' = NoCall
                 /\ process'.stdout = <<>>
                 /\ untouched
           /\ checked(process) =>
                 /\ process'.state = "exited"
                 /\ process'.exit_code = 1
                 /\ untouched]_vars

C21_Witness ==
    /\ process.state = "exited"
    /\ process.program = "kaws"
    /\ process.subcommand = "cluster init"
    /\ ~process.dependencies
    /\ process.exit_code = 1
    /\ result = KawsError("dependency missing")
    /\ log.run.commands = <<>>

=============================================================================
